---- MODULE Spec2Model ----
(***************************************************************************)
(* Session state machine and phase scheduler of the mafia game agent.     *)
(*                                                                         *)
(* The single Game object of GameManager is the variable `game`.  Every   *)
(* handler and timer callback is an async function: it runs atomically up  *)
(* to an await on the messaging collaborator, where it is suspended and    *)
(* any other trigger may run.  A suspended invocation is a record of       *)
(* the bag `flows`; a timer registered with setPhaseTimer is in `timers`;  *)
(* a raw setTimeout (the early advance after a kill) is counted in         *)
(* `delayed`; `created` counts the groups newGroup has made, the n-th of   *)
(* which has id n.  Awaits of GameManager's own methods that never reach   *)
(* the collaborator (advancePhase, startRound, eliminatePlayer, cleanup,   *)
(* castVote, attemptKill by username) do not let a macrotask in, and are   *)
(* part of the surrounding step.                                           *)
(*                                                                         *)
(* Inbox ids are the numbers 1..NumIds; the username of a participant is   *)
(* identified with the inbox id (usernames are distinct, and the           *)
(* case-insensitive comparison of two usernames is the comparison of the   *)
(* ids).  0 stands for null, for a username nobody has, and for an         *)
(* unset timestamp (Date.now() is never 0: the clock starts at 1).         *)
(***************************************************************************)
EXTENDS Integers, Sequences, FiniteSets, Bags, TLC

VARIABLES game, timers, flows, delayed, now, created

vars == <<game, timers, flows, delayed, now, created>>

----------------------------------------------------------------------------
(* Bounds of the model *)

NumIds == 2        \* participants that may send commands: inbox ids 1..NumIds
MaxTime == 5       \* the clock runs 1..MaxTime
MaxFlows == 2      \* player commands suspended at an await at the same time
MaxDelayed == 2    \* pending early-advance setTimeout callbacks
MaxGroups == 1     \* lobby groups the collaborator creates
NumSenders == 3    \* senders of lobby commands, in SpecSessions
MaxSessions == 2   \* lobby groups the collaborator creates, in SpecSessions
MaxTargets == 3    \* players that votes may name, in SpecVote: inbox ids 1..MaxTargets

Ids == 1..NumIds

(* Configuration (config/gameConfig.js).  The roster limit is the 6 of
   canStartGame and the number of rounds the 3 of getStateForRoundPhase and
   checkWinCondition.  The other values are read by the code only in
   comparisons: the smallest quorum, a cooldown and a join window of one
   clock unit and two attempts make every branch of the comparisons
   reachable.  The phase durations order nothing in the model: a pending
   timer may fire at any time.  The chance of a kill, in percent, is only
   stored: the draw of attemptKill is an input of the kill actions. *)

MAX_PLAYERS == 6
MAX_ROUNDS == 3
MIN_PLAYERS_TO_START == 2
KILL_COOLDOWN_MS == 1
MAX_KILL_ATTEMPTS == 2
KILL_SUCCESS_CHANCE == 50
JOIN_WINDOW_DURATION_MS == 1

AgentInboxId == 100   \* this.agent.client.inboxId: the hosting agent, never a sender

Null == 0

----------------------------------------------------------------------------
(* GameManager: the Game object *)

NewGame ==
  [ state |-> "IDLE",
    lobbyGroupId |-> Null,
    originalGroupId |-> Null,
    players |-> << >>,
    round |-> 0,
    startTime |-> Null,
    joinDeadline |-> Null,
    currentPhaseDeadline |-> Null,
    impostorInboxId |-> Null,
    eliminatedPlayers |-> {},
    killCooldown |-> KILL_COOLDOWN_MS,
    killSuccessChance |-> KILL_SUCCESS_CHANCE,
    maxKillAttempts |-> MAX_KILL_ATTEMPTS,
    taskAssignments |-> [x \in {} |-> FALSE] ]

NewPlayer(inboxId) ==
  [ inboxId |-> inboxId,
    username |-> inboxId,
    role |-> "null",
    isAlive |-> TRUE,
    completedTasks |-> 0,
    killAttempts |-> 0,
    lastKillAttempt |-> Null,
    voted |-> FALSE,
    voteTarget |-> Null ]

(* Map helpers: players is a Map in insertion order, here the sequence of
   its values; taskAssignments is a Map inboxId -> Task, here the function
   from the assigned inbox ids to the task's completed flag. *)

Has(g, id) == \E i \in 1..Len(g.players) : g.players[i].inboxId = id

IndexOf(g, id) == CHOOSE i \in 1..Len(g.players) : g.players[i].inboxId = id

getPlayer(g, id) == g.players[IndexOf(g, id)]

getAlivePlayers(g) == SelectSeq(g.players, LAMBDA p : p.isAlive)

AliveIds(g) == { g.players[i].inboxId : i \in { j \in 1..Len(g.players) : g.players[j].isAlive } }

RosterIds(g) == { g.players[i].inboxId : i \in 1..Len(g.players) }

(* createLobby: the check before the await of newGroup, and the assignments
   after it.  groupId is the id of the group the collaborator created. *)
\* a check that lets a lobby be created over an open lobby
createLobbyOverLobby(g) == g.state \in {"IDLE", "LOBBY_CREATED", "WAITING_FOR_PLAYERS"}

createLobbyAllowed(g) == g.state = "IDLE"

createLobby(g, groupId, originalGroupId, t) ==
  [g EXCEPT !.state = "LOBBY_CREATED",
            !.lobbyGroupId = groupId,
            !.originalGroupId = originalGroupId,
            !.startTime = t,
            !.joinDeadline = t + JOIN_WINDOW_DURATION_MS]

\* a check that does not look at the join deadline
addPlayerLate(g, inboxId, t) ==
  /\ g.state \in {"LOBBY_CREATED", "WAITING_FOR_PLAYERS"}
  /\ ~(inboxId \in {g.players[i].inboxId : i \in 1..Len(g.players)})

(* addPlayer *)
addPlayerAccepted(g, inboxId, t) ==
  /\ g.state \in {"LOBBY_CREATED", "WAITING_FOR_PLAYERS"}
  /\ ~Has(g, inboxId)
  /\ ~(g.joinDeadline # Null /\ t > g.joinDeadline)

\* the index of the last roster entry that is not the agent, 0 if none
lastEntry(g) ==
  LET cand == { i \in 1..Len(g.players) : g.players[i].inboxId # AgentInboxId }
  IN IF cand = {} THEN 0 ELSE CHOOSE i \in cand : \A j \in cand : j <= i

RemoveAt(s, i) == [j \in 1..(Len(s) - 1) |-> IF j < i THEN s[j] ELSE s[j + 1]]

\* lines 112-149: the eviction, when the lobby is full
addPlayerEvict(g) ==
  IF Len(g.players) >= MAX_PLAYERS /\ lastEntry(g) # 0
  THEN [g EXCEPT !.players = RemoveAt(g.players, lastEntry(g))]
  ELSE g

removedPlayer(g) ==
  IF Len(g.players) >= MAX_PLAYERS /\ lastEntry(g) # 0
  THEN g.players[lastEntry(g)].inboxId
  ELSE Null

\* lines 151-164: players.set(inboxId, player) and the state
addPlayerAdmit(g, inboxId) ==
  [g EXCEPT !.players =
              IF Has(g, inboxId)
              THEN [i \in 1..Len(g.players) |->
                      IF g.players[i].inboxId = inboxId
                      THEN NewPlayer(inboxId) ELSE g.players[i]]
              ELSE Append(g.players, NewPlayer(inboxId)),
            !.state = "WAITING_FOR_PLAYERS"]

\* a quorum test without the deadline and the full roster
canStartGameEarly(g, t) ==
  /\ g.state = "WAITING_FOR_PLAYERS"
  /\ Len(g.players) >= MIN_PLAYERS_TO_START

canStartGame(g, t) ==
  LET deadlinePassed == g.joinDeadline # Null /\ t > g.joinDeadline
      isFull == Len(g.players) >= 6
  IN /\ g.state = "WAITING_FOR_PLAYERS"
     /\ (deadlinePassed \/ isFull)
     /\ Len(g.players) >= MIN_PLAYERS_TO_START

(* assignRoles: impostorIndex is Math.floor(Math.random() * length) + 1 *)
assignRolesAllowed(g, t) == g.state = "WAITING_FOR_PLAYERS" /\ canStartGame(g, t)

assignRoles(g, impostorIndex) ==
  [g EXCEPT !.players = [i \in 1..Len(g.players) |->
                           [g.players[i] EXCEPT !.role =
                              IF i = impostorIndex THEN "IMPOSTOR" ELSE "CREW"]],
            !.impostorInboxId = g.players[impostorIndex].inboxId,
            !.state = "ASSIGN_ROLES"]

stateMap ==
  [r \in 1..3 |->
     CASE r = 1 -> [TASKS |-> "ROUND_1_TASKS", KILL |-> "ROUND_1_KILL",
                    DISCUSSION |-> "ROUND_1_DISCUSSION", VOTING |-> "ROUND_1_VOTING"]
       [] r = 2 -> [TASKS |-> "ROUND_2_TASKS", KILL |-> "ROUND_2_KILL",
                    DISCUSSION |-> "ROUND_2_DISCUSSION", VOTING |-> "ROUND_2_VOTING"]
       [] r = 3 -> [TASKS |-> "ROUND_3_TASKS", KILL |-> "ROUND_3_KILL",
                    DISCUSSION |-> "ROUND_3_DISCUSSION", VOTING |-> "ROUND_3_VOTING"]]

getStateForRoundPhase(r, phase) ==
  IF r \in DOMAIN stateMap THEN stateMap[r][phase] ELSE "IDLE"

\* startRound without the test of its argument
startRoundUnchecked(g, r) ==
  [g EXCEPT !.round = r, !.state = getStateForRoundPhase(r, "TASKS")]

(* startRound: a round outside 1..MAX_ROUNDS throws and changes nothing *)
startRound(g, r) ==
  IF r < 1 \/ r > MAX_ROUNDS THEN g
  ELSE
    LET alive == AliveIds(g)
    IN [g EXCEPT
          !.round = r,
          !.state = getStateForRoundPhase(r, "TASKS"),
          !.players = [i \in 1..Len(g.players) |->
                         IF g.players[i].isAlive
                         THEN [g.players[i] EXCEPT !.killAttempts = 0,
                                                   !.lastKillAttempt = Null,
                                                   !.voted = FALSE,
                                                   !.voteTarget = Null]
                         ELSE g.players[i]],
          !.taskAssignments = [x \in (DOMAIN g.taskAssignments) \cup alive |->
                                 IF x \in alive THEN FALSE ELSE g.taskAssignments[x]]]

isTaskPhase(s) == s \in {"ROUND_1_TASKS", "ROUND_2_TASKS", "ROUND_3_TASKS"}
\* a faulty phase test, which lets kills through in the task phases
isKillOrTaskPhase(s) ==
  s \in {"ROUND_1_KILL", "ROUND_2_KILL", "ROUND_3_KILL",
         "ROUND_1_TASKS", "ROUND_2_TASKS", "ROUND_3_TASKS"}
isKillPhase(s) == s \in {"ROUND_1_KILL", "ROUND_2_KILL", "ROUND_3_KILL"}
isVotingPhase(s) == s \in {"ROUND_1_VOTING", "ROUND_2_VOTING", "ROUND_3_VOTING"}

\* completeTask without the test of the role
completeTaskAnyRole(g, inboxId, isCorrect) ==
  /\ Has(g, inboxId)
  /\ g.players[CHOOSE i \in 1..Len(g.players) : g.players[i].inboxId = inboxId].isAlive
  /\ g.state \in {"ROUND_1_TASKS", "ROUND_2_TASKS", "ROUND_3_TASKS"}
  /\ inboxId \in DOMAIN g.taskAssignments
  /\ ~g.taskAssignments[inboxId]
  /\ isCorrect

(* completeTask: isCorrect is validateTaskAnswer(task, answer.trim()) *)
completeTaskAccepted(g, inboxId, isCorrect) ==
  /\ Has(g, inboxId)
  /\ getPlayer(g, inboxId).isAlive
  /\ getPlayer(g, inboxId).role # "IMPOSTOR"
  /\ isTaskPhase(g.state)
  /\ inboxId \in DOMAIN g.taskAssignments
  /\ ~g.taskAssignments[inboxId]
  /\ isCorrect

completeTask(g, inboxId, isCorrect) ==
  IF completeTaskAccepted(g, inboxId, isCorrect)
  THEN [g EXCEPT !.taskAssignments[inboxId] = TRUE,
                 !.players[IndexOf(g, inboxId)].completedTasks = @ + 1]
  ELSE g

(* attemptKill.  The target is looked up by username among the living
   players (line 395); an address-shaped identifier is first resolved through
   the group's member list to an inbox id and then looked up among the same
   living players, so both resolutions answer the same player or none. *)
killTarget(g, targetIdentifier) ==
  LET found == { i \in 1..Len(g.players) :
                   g.players[i].username = targetIdentifier /\ g.players[i].isAlive }
  IN IF found = {} THEN 0 ELSE CHOOSE i \in found : \A j \in found : i <= j

\* faulty checks: one without the cooldown, one without the cap on attempts
attemptKillNoCooldown(g, impostorInboxId, targetIdentifier, t) ==
  IF ~Has(g, impostorInboxId) THEN "Only the mafia can attempt kills."
  ELSE LET impostor == getPlayer(g, impostorInboxId)
           target == killTarget(g, targetIdentifier)
       IN IF ~impostor.isAlive \/ impostor.role # "IMPOSTOR"
            THEN "Only the mafia can attempt kills."
          ELSE IF ~isKillPhase(g.state) THEN "It's not the kill phase yet."
          ELSE IF target = 0 THEN "not found or already eliminated"
          ELSE IF g.players[target].inboxId = impostorInboxId
            THEN "You cannot kill yourself."
          ELSE IF impostor.killAttempts >= g.maxKillAttempts
            THEN "Maximum kill attempts reached for this round."
          ELSE "none"

attemptKillNoCap(g, impostorInboxId, targetIdentifier, t) ==
  IF ~Has(g, impostorInboxId) THEN "Only the mafia can attempt kills."
  ELSE LET impostor == getPlayer(g, impostorInboxId)
           target == killTarget(g, targetIdentifier)
       IN IF ~impostor.isAlive \/ impostor.role # "IMPOSTOR"
            THEN "Only the mafia can attempt kills."
          ELSE IF ~isKillPhase(g.state) THEN "It's not the kill phase yet."
          ELSE IF target = 0 THEN "not found or already eliminated"
          ELSE IF g.players[target].inboxId = impostorInboxId
            THEN "You cannot kill yourself."
          ELSE IF impostor.lastKillAttempt # Null
                  /\ t - impostor.lastKillAttempt < g.killCooldown
            THEN "Kill attempt on cooldown."
          ELSE "none"

attemptKillReject(g, impostorInboxId, targetIdentifier, t) ==
  IF ~Has(g, impostorInboxId) THEN "Only the mafia can attempt kills."
  ELSE LET impostor == getPlayer(g, impostorInboxId)
           target == killTarget(g, targetIdentifier)
       IN IF ~impostor.isAlive \/ impostor.role # "IMPOSTOR"
            THEN "Only the mafia can attempt kills."
          ELSE IF ~isKillPhase(g.state) THEN "It's not the kill phase yet."
          ELSE IF target = 0 THEN "not found or already eliminated"
          ELSE IF g.players[target].inboxId = impostorInboxId
            THEN "You cannot kill yourself."
          ELSE IF impostor.lastKillAttempt # Null
                  /\ t - impostor.lastKillAttempt < g.killCooldown
            THEN "Kill attempt on cooldown."
          ELSE IF impostor.killAttempts >= g.maxKillAttempts
            THEN "Maximum kill attempts reached for this round."
          ELSE "none"

\* a faulty attempt, which counts only the attempts that fail
attemptKillUncounted(g, impostorInboxId, targetIdentifier, t, success) ==
  LET i == IndexOf(g, impostorInboxId)
      target == killTarget(g, targetIdentifier)
  IN IF success
     THEN [g EXCEPT !.players[target].isAlive = FALSE,
                    !.eliminatedPlayers = @ \cup {g.players[target].inboxId}]
     ELSE [g EXCEPT !.players[i].killAttempts = @ + 1,
                    !.players[i].lastKillAttempt = t]

\* lines 437-456: a qualifying attempt; success is Math.random() < killSuccessChance
attemptKillApply(g, impostorInboxId, targetIdentifier, t, success) ==
  LET i == IndexOf(g, impostorInboxId)
      target == killTarget(g, targetIdentifier)
      g1 == [g EXCEPT !.players[i].killAttempts = @ + 1,
                      !.players[i].lastKillAttempt = t]
  IN IF success
     THEN [g1 EXCEPT !.players[target].isAlive = FALSE,
                     !.eliminatedPlayers = @ \cup {g.players[target].inboxId}]
     ELSE g1

attemptKill(g, impostorInboxId, targetIdentifier, t, success) ==
  IF attemptKillReject(g, impostorInboxId, targetIdentifier, t) = "none"
  THEN [success |-> success,
        game |-> attemptKillApply(g, impostorInboxId, targetIdentifier, t, success)]
  ELSE [success |-> FALSE, game |-> g]

(* castVote *)
castVoteAccepted(g, voterInboxId, targetUsername) ==
  /\ Has(g, voterInboxId)
  /\ getPlayer(g, voterInboxId).isAlive
  /\ isVotingPhase(g.state)
  /\ ~getPlayer(g, voterInboxId).voted
  /\ \E i \in 1..Len(g.players) : g.players[i].username = targetUsername

castVote(g, voterInboxId, targetUsername) ==
  IF castVoteAccepted(g, voterInboxId, targetUsername)
  THEN LET target == CHOOSE i \in 1..Len(g.players) :
                        /\ g.players[i].username = targetUsername
                        /\ \A j \in 1..Len(g.players) :
                             g.players[j].username = targetUsername => i <= j
       IN [g EXCEPT !.players[IndexOf(g, voterInboxId)].voted = TRUE,
                    !.players[IndexOf(g, voterInboxId)].voteTarget =
                        g.players[target].inboxId]
  ELSE g

(* getVoteResults: voteCounts is a Map filled in roster order, so its entries
   are in the order in which each target got its first counted vote; the
   sort by descending votes is stable. *)
countedVote(p) == p.isAlive /\ p.voted /\ p.voteTarget # Null

RECURSIVE voteCounts(_, _)
voteCounts(ps, n) ==
  IF n = 0 THEN << >>
  ELSE LET sofar == voteCounts(ps, n - 1)
           p == ps[n]
       IN IF ~countedVote(p) THEN sofar
          ELSE IF \E k \in 1..Len(sofar) : sofar[k].target = p.voteTarget
            THEN [k \in 1..Len(sofar) |->
                    IF sofar[k].target = p.voteTarget
                    THEN [sofar[k] EXCEPT !.votes = @ + 1] ELSE sofar[k]]
          ELSE Append(sofar, [target |-> p.voteTarget, votes |-> 1])

\* x goes after every entry that does not have fewer votes: a stable sort
InsertByVotes(sorted, x) ==
  LET before == { k \in 1..Len(sorted) : sorted[k].votes >= x.votes }
      n == Cardinality(before)
  IN [k \in 1..(Len(sorted) + 1) |->
        IF k <= n THEN sorted[k] ELSE IF k = n + 1 THEN x ELSE sorted[k - 1]]

RECURSIVE sortByVotes(_, _)
sortByVotes(entries, n) ==
  IF n = 0 THEN << >> ELSE InsertByVotes(sortByVotes(entries, n - 1), entries[n])

getVoteResults(g) ==
  LET entries == voteCounts(g.players, Len(g.players))
  IN sortByVotes(entries, Len(entries))

\* a faulty elimination, which does not enter the player in the eliminated set
eliminatePlayerUnlisted(g, inboxId) ==
  IF ~Has(g, inboxId) THEN g
  ELSE [g EXCEPT !.players[IndexOf(g, inboxId)].isAlive = FALSE]

eliminatePlayer(g, inboxId) ==
  IF ~Has(g, inboxId) THEN g
  ELSE [g EXCEPT !.players[IndexOf(g, inboxId)].isAlive = FALSE,
                 !.eliminatedPlayers = @ \cup {inboxId}]

checkWinCondition(g) ==
  IF ~Has(g, g.impostorInboxId) \/ ~getPlayer(g, g.impostorInboxId).isAlive
  THEN [gameEnded |-> TRUE, winner |-> "CREW"]
  ELSE IF /\ g.round = MAX_ROUNDS
          /\ g.state \in {"ROUND_3_VOTING", "GAME_END"}
          /\ getPlayer(g, g.impostorInboxId).isAlive
  THEN [gameEnded |-> TRUE, winner |-> "IMPOSTOR"]
  ELSE [gameEnded |-> FALSE, winner |-> "null"]

advancePhase(g) ==
  CASE g.state = "ROUND_1_TASKS" -> [g EXCEPT !.state = "ROUND_1_KILL"]
    [] g.state = "ROUND_2_TASKS" -> [g EXCEPT !.state = "ROUND_2_KILL"]
    [] g.state = "ROUND_3_TASKS" -> [g EXCEPT !.state = "ROUND_3_KILL"]
    [] g.state = "ROUND_1_KILL" -> [g EXCEPT !.state = "ROUND_1_DISCUSSION"]
    [] g.state = "ROUND_2_KILL" -> [g EXCEPT !.state = "ROUND_2_DISCUSSION"]
    [] g.state = "ROUND_3_KILL" -> [g EXCEPT !.state = "ROUND_3_DISCUSSION"]
    [] g.state = "ROUND_1_DISCUSSION" -> [g EXCEPT !.state = "ROUND_1_VOTING"]
    [] g.state = "ROUND_2_DISCUSSION" -> [g EXCEPT !.state = "ROUND_2_VOTING"]
    [] g.state = "ROUND_3_DISCUSSION" -> [g EXCEPT !.state = "ROUND_3_VOTING"]
    [] g.state = "ROUND_1_VOTING" -> startRound(g, 2)
    [] g.state = "ROUND_2_VOTING" -> startRound(g, 3)
    [] g.state = "ROUND_3_VOTING" -> [g EXCEPT !.state = "GAME_END"]
    [] OTHER -> g

\* faulty resets: the lobby's group id, and the round, survive
cleanupKeepsLobby(g) == [NewGame EXCEPT !.lobbyGroupId = g.lobbyGroupId]
cleanupKeepsRound(g) == [NewGame EXCEPT !.round = g.round]

\* cleanup: this.game is assigned a new object, whatever g holds
cleanup(g) ==
  [ state |-> "IDLE",
    lobbyGroupId |-> Null,
    originalGroupId |-> Null,
    players |-> << >>,
    round |-> 0,
    startTime |-> Null,
    joinDeadline |-> Null,
    currentPhaseDeadline |-> Null,
    impostorInboxId |-> Null,
    eliminatedPlayers |-> {},
    killCooldown |-> KILL_COOLDOWN_MS,
    killSuccessChance |-> KILL_SUCCESS_CHANCE,
    maxKillAttempts |-> MAX_KILL_ATTEMPTS,
    taskAssignments |-> [x \in {} |-> FALSE] ]

----------------------------------------------------------------------------
(* Phase scheduler (utils/timers.js): a registry of pending one-shot timers,
   one per key.  A key is the timer's kind and round; the callback a key is
   registered with is determined by the key.  The join-window timer also
   records when it is due. *)

TimerKey(kind, r, due) == [kind |-> kind, r |-> r, due |-> due]

setPhaseTimer(ts, key) ==
  { k \in ts : ~(k.kind = key.kind /\ k.r = key.r) } \cup {key}

clearPhaseTimer(ts, kind, r) == { k \in ts : ~(k.kind = kind /\ k.r = r) }

clearAllTimers(ts) == {}

----------------------------------------------------------------------------
(* Suspended invocations *)

Flow(pc, id, r, w) == [pc |-> pc, id |-> id, r |-> r, w |-> w]

(* `flows` is a bag: two invocations suspended at the same place with the
   same arguments are two invocations *)
suspend(fs, new) == fs (+) SetToBag(new)
resume(fs, f) == fs (-) SetToBag({f})
restrict(fs, pcs) ==
  LET keep == { f \in BagToSet(fs) : f.pc \in pcs }
  IN [f \in keep |-> fs[f]]

\* the suspended invocations that a player's command or button started
PlayerFlows ==
  restrict(flows, {"createLobby", "startSetup", "cancelGame", "voteIntent",
                   "killCmd", "killCmd2", "killIntent", "killIntent2"})

\* a command that suspends is taken up only below the bound
CanSuspend == BagCardinality(PlayerFlows) < MaxFlows

\* the Player objects a suspended vote intent holds belong to the Game object
\* that cleanup() replaces: its continuation then writes to an orphan
DropOrphans(fs) ==
  LET keep == { f \in BagToSet(fs) : f.pc # "voteIntent" }
  IN [f \in keep |-> fs[f]]

(* game/gameFlow.js: the part of each phase function before its first await *)

startTaskPhaseEntry(g, r) ==
  IF g.lobbyGroupId = Null THEN {} ELSE {Flow("startTaskPhase", 0, r, "")}

startKillPhaseEntry(g, r) ==
  IF g.impostorInboxId = Null THEN {}
  ELSE IF ~Has(g, g.impostorInboxId) \/ ~getPlayer(g, g.impostorInboxId).isAlive THEN {}
  ELSE {Flow("startKillPhase", 0, r, "")}

startDiscussionPhaseEntry(g, r) ==
  IF g.lobbyGroupId = Null THEN {} ELSE {Flow("startDiscussionPhase", 0, r, "")}

startVotingPhaseEntry(g, r) ==
  IF g.lobbyGroupId = Null THEN {} ELSE {Flow("startVotingPhase", 0, r, "")}

processVotingEntry(g, r) ==
  IF g.lobbyGroupId = Null THEN {} ELSE {Flow("processVoting", 0, r, "")}

\* endGame up to its await: clearAllTimers, then the lobby id is read
endGameEntry(g, winner) ==
  IF g.lobbyGroupId = Null THEN {} ELSE {Flow("endGame", 0, 0, winner)}

\* lines 863-866 of startVotingPhase
resetVotes(g) ==
  [g EXCEPT !.players = [i \in 1..Len(g.players) |->
                           IF g.players[i].isAlive
                           THEN [g.players[i] EXCEPT !.voted = FALSE, !.voteTarget = Null]
                           ELSE g.players[i]]]

\* a faulty majority (more than half), which MajorityEliminates tells apart
strictMajority(aliveCount) == aliveCount \div 2 + 1

majority(aliveCount) == (aliveCount + 1) \div 2

\* lines 885-917 of processVoting: the player the tally eliminates, or Null
tallyEliminates(g) ==
  LET results == getVoteResults(g)
  IN IF Len(results) = 0 THEN Null
     ELSE IF results[1].votes >= majority(Len(getAlivePlayers(g)))
               /\ Has(g, results[1].target)
          THEN results[1].target
     ELSE Null

----------------------------------------------------------------------------
Init ==
  /\ game = NewGame
  /\ timers = {}
  /\ flows = EmptyBag
  /\ delayed = 0
  /\ now = 1
  /\ created = 0

(* The clock.  The code reads it only to compare it with the join deadline
   and with the impostor's last kill attempt, and the join-window timer with
   its due time: time that none of these can observe is not counted. *)
TimeObserved ==
  \/ game.joinDeadline # Null /\ now <= game.joinDeadline
  \/ \E k \in timers : k.kind = "joinWindow" /\ now <= k.due
  \/ \E i \in 1..Len(game.players) :
       /\ game.players[i].lastKillAttempt # Null
       /\ now - game.players[i].lastKillAttempt < game.killCooldown

Tick ==
  /\ now < MaxTime
  /\ TimeObserved
  /\ now' = now + 1
  /\ UNCHANGED <<game, timers, flows, delayed, created>>

(* /start: createLobby up to the await of newGroup, which makes the next
   group.  Sender s typed /start in conversation s. *)
StartCmdUpTo(s, maxGroups) ==
  /\ CanSuspend
  /\ created < maxGroups
  /\ createLobbyAllowed(game)
  /\ created' = created + 1
  /\ flows' = suspend(flows, {Flow("createLobby", s, created + 1, "")})
  /\ UNCHANGED <<game, timers, delayed, now>>

StartCmd(s) == StartCmdUpTo(s, MaxGroups)

(* /start: createLobby after newGroup, and addPlayer of the sender up to its
   await of addMembers *)
CreateLobbyResume(s, groupId) ==
  LET f == Flow("createLobby", s, groupId, "")
      g1 == createLobby(game, groupId, s, now)
      ok == addPlayerAccepted(g1, s, now)
  IN /\ BagIn(f, flows)
     /\ game' = IF ok THEN addPlayerAdmit(addPlayerEvict(g1), s) ELSE g1
     /\ flows' = suspend(resume(flows, f), (IF ok THEN {Flow("startSetup", s, 0, "")} ELSE {}))
     /\ UNCHANGED <<timers, delayed, now, created>>

(* /start: after the sends, the join-window timer is registered *)
StartSetupResume(s) ==
  LET f == Flow("startSetup", s, 0, "")
  IN /\ BagIn(f, flows)
     /\ timers' = setPhaseTimer(timers,
                     TimerKey("joinWindow", 0, now + JOIN_WINDOW_DURATION_MS))
     /\ flows' = resume(flows, f)
     /\ UNCHANGED <<game, delayed, now, created>>

(* /join and the join-game button: addPlayer.  The continuation of both
   handlers starts the game only when the roster holds MAX_PLAYERS players,
   which fewer than MAX_PLAYERS senders never make it. *)
JoinCmd(j) ==
  /\ addPlayerAccepted(game, j, now)
  /\ game' = addPlayerAdmit(addPlayerEvict(game), j)
  /\ UNCHANGED <<timers, flows, delayed, now, created>>

(* startGame: assignRoles up to the await of sendRoleDMs; a throw of
   assignRoles is caught by startGame and changes nothing *)
startGameBegin(g, t, impostorIndex) ==
  IF assignRolesAllowed(g, t)
  THEN [game |-> assignRoles(g, impostorIndex), flows |-> {Flow("startGame", 0, 0, "")}]
  ELSE [game |-> g, flows |-> {}]

(* The join-window timer fires.  It was registered after joinDeadline was
   computed from the same duration, so it fires after the deadline. *)
JoinWindowFire ==
  \E k \in timers :
    /\ k.kind = "joinWindow"
    /\ now > k.due
    /\ timers' = timers \ {k}
    /\ IF game.state = "WAITING_FOR_PLAYERS"
       THEN IF canStartGame(game, now)
            THEN \E idx \in 1..Len(game.players) :
                   /\ game' = startGameBegin(game, now, idx).game
                   /\ flows' = suspend(flows, startGameBegin(game, now, idx).flows)
            ELSE /\ flows' = suspend(flows, {Flow("abortLobby", 0, 0, "")})
                 /\ game' = game
       ELSE UNCHANGED <<game, flows>>
    /\ UNCHANGED <<delayed, now, created>>

(* Not enough players: after the send, clearAllTimers and cleanup *)
AbortLobbyResume ==
  LET f == Flow("abortLobby", 0, 0, "")
  IN /\ BagIn(f, flows)
     /\ timers' = clearAllTimers(timers)
     /\ game' = cleanup(game)
     /\ flows' = DropOrphans(resume(flows, f))
     /\ UNCHANGED <<delayed, now, created>>

(* The cancel-game button *)
CancelIntent ==
  /\ CanSuspend
  /\ game.state \in {"WAITING_FOR_PLAYERS", "LOBBY_CREATED"}
  /\ game.lobbyGroupId # Null
  /\ flows' = suspend(flows, {Flow("cancelGame", 0, 0, "")})
  /\ UNCHANGED <<game, timers, delayed, now, created>>

CancelResume ==
  LET f == Flow("cancelGame", 0, 0, "")
  IN /\ BagIn(f, flows)
     /\ timers' = clearAllTimers(timers)
     /\ game' = cleanup(game)
     /\ flows' = DropOrphans(resume(flows, f))
     /\ UNCHANGED <<delayed, now, created>>

(* startGame after sendRoleDMs: the lobby id is read *)
StartGameResume ==
  LET f == Flow("startGame", 0, 0, "")
  IN /\ BagIn(f, flows)
     /\ flows' = suspend(resume(flows, f), (IF game.lobbyGroupId # Null THEN {Flow("startGame2", 0, 0, "")} ELSE {}))
     /\ UNCHANGED <<game, timers, delayed, now, created>>

(* startGame after its sends: startRound(1), startTaskPhase(1) *)
StartRoundOne ==
  LET f == Flow("startGame2", 0, 0, "")
      g1 == startRound(game, 1)
  IN /\ BagIn(f, flows)
     /\ game' = g1
     /\ flows' = suspend(resume(flows, f), startTaskPhaseEntry(g1, 1))
     /\ UNCHANGED <<timers, delayed, now, created>>

JoinIntent(j) ==
  /\ addPlayerAccepted(game, j, now)
  /\ game' = addPlayerAdmit(addPlayerEvict(game), j)
  /\ UNCHANGED <<timers, flows, delayed, now, created>>

----------------------------------------------------------------------------
(* Phases.  Each phase function announces the phase (awaits) and then
   registers the phase's timer. *)

PhaseTimer(kind, r) == TimerKey(kind, r, 0)

StartTaskPhaseResume(r) ==
  LET f == Flow("startTaskPhase", 0, r, "")
  IN /\ BagIn(f, flows)
     /\ timers' = setPhaseTimer(timers, PhaseTimer("taskPhase", r))
     /\ flows' = resume(flows, f)
     /\ UNCHANGED <<game, delayed, now, created>>

\* the callback of taskPhase-r
TaskTimerFire(r) ==
  LET g1 == advancePhase(game)
  IN /\ PhaseTimer("taskPhase", r) \in timers
     /\ timers' = timers \ {PhaseTimer("taskPhase", r)}
     /\ game' = g1
     /\ flows' = suspend(flows, startKillPhaseEntry(g1, r))
     /\ UNCHANGED <<delayed, now, created>>

StartKillPhaseResume(r) ==
  LET f == Flow("startKillPhase", 0, r, "")
  IN /\ BagIn(f, flows)
     /\ timers' = setPhaseTimer(timers, PhaseTimer("killPhase", r))
     /\ flows' = resume(flows, f)
     /\ UNCHANGED <<game, delayed, now, created>>

\* the callback of killPhase-r
KillTimerFire(r) ==
  LET g1 == advancePhase(game)
  IN /\ PhaseTimer("killPhase", r) \in timers
     /\ timers' = timers \ {PhaseTimer("killPhase", r)}
     /\ IF isKillPhase(game.state)
        THEN /\ game' = g1
             /\ flows' = suspend(flows, startDiscussionPhaseEntry(g1, r))
        ELSE UNCHANGED <<game, flows>>
     /\ UNCHANGED <<delayed, now, created>>

StartDiscussionPhaseResume(r) ==
  LET f == Flow("startDiscussionPhase", 0, r, "")
  IN /\ BagIn(f, flows)
     /\ timers' = setPhaseTimer(timers, PhaseTimer("discussion", r))
     /\ flows' = resume(flows, f)
     /\ UNCHANGED <<game, delayed, now, created>>

\* the callback of discussion-r
DiscussionTimerFire(r) ==
  LET g1 == advancePhase(game)
  IN /\ PhaseTimer("discussion", r) \in timers
     /\ timers' = timers \ {PhaseTimer("discussion", r)}
     /\ game' = g1
     /\ flows' = suspend(flows, startVotingPhaseEntry(g1, r))
     /\ UNCHANGED <<delayed, now, created>>

\* startVotingPhase after the announcement and the buttons
StartVotingPhaseResume(r) ==
  LET f == Flow("startVotingPhase", 0, r, "")
  IN /\ BagIn(f, flows)
     /\ game' = resetVotes(game)
     /\ timers' = setPhaseTimer(timers, PhaseTimer("voting", r))
     /\ flows' = resume(flows, f)
     /\ UNCHANGED <<delayed, now, created>>

\* the callback of voting-r: processVoting up to its first await
VotingTimerFire(r) ==
  /\ PhaseTimer("voting", r) \in timers
  /\ timers' = timers \ {PhaseTimer("voting", r)}
  /\ flows' = suspend(flows, processVotingEntry(game, r))
  /\ UNCHANGED <<game, delayed, now, created>>

\* a faulty end of the last round (the crew is declared the winner), which
\* ImpostorSurvives tells apart
advanceOrEndCrew(g, ts, r) ==
  IF r < MAX_ROUNDS
  THEN LET g2 == startRound(advancePhase(g), r + 1)
       IN [game |-> g2, timers |-> ts,
           flows |-> IF g2.lobbyGroupId = Null THEN {}
                     ELSE {[pc |-> "startTaskPhase", id |-> 0, r |-> r + 1, w |-> ""]}]
  ELSE [game |-> g, timers |-> {},
        flows |-> IF g.lobbyGroupId = Null THEN {}
                  ELSE {[pc |-> "endGame", id |-> 0, r |-> 0, w |-> "CREW"]}]

(* processVoting, lines 919-929: the next round, or the end of the game.
   The result is the game, the timers and the invocations it suspends. *)
advanceOrEnd(g, ts, r) ==
  IF r < MAX_ROUNDS
  THEN LET g2 == startRound(advancePhase(g), r + 1)
       IN [game |-> g2, timers |-> ts, flows |-> startTaskPhaseEntry(g2, r + 1)]
  ELSE LET winCheck == checkWinCondition(g)
           winner == IF winCheck.winner = "null" THEN "IMPOSTOR" ELSE winCheck.winner
       IN [game |-> g, timers |-> clearAllTimers(ts), flows |-> endGameEntry(g, winner)]

(* processVoting, lines 885-917: the tally up to the await of the send that
   reports it *)
ProcessVotingTally(r) ==
  LET f == Flow("processVoting", 0, r, "")
      results == getVoteResults(game)
      out == tallyEliminates(game)
      skip == advanceOrEnd(game, timers, r)
  IN /\ BagIn(f, flows)
     /\ IF out # Null
        THEN /\ game' = eliminatePlayer(game, out)
             /\ flows' = suspend(resume(flows, f), {Flow("afterTally", 0, r, "eliminated")})
             /\ UNCHANGED timers
        ELSE IF Len(results) > 0
                /\ results[1].votes >= majority(Len(getAlivePlayers(game)))
        THEN \* the voted target is not in the roster: no send, no await
             /\ game' = skip.game
             /\ timers' = skip.timers
             /\ flows' = suspend(resume(flows, f), skip.flows)
        ELSE /\ flows' = suspend(resume(flows, f), {Flow("afterTally", 0, r, "none")})
             /\ UNCHANGED <<game, timers>>
     /\ UNCHANGED <<delayed, now, created>>

(* processVoting after the send: the win check (only after an elimination),
   then the next round or the end *)
AfterTally(r, w) ==
  LET f == Flow("afterTally", 0, r, w)
      winCheck == checkWinCondition(game)
      next == advanceOrEnd(game, timers, r)
  IN /\ BagIn(f, flows)
     /\ IF w = "eliminated" /\ winCheck.gameEnded
        THEN /\ timers' = clearAllTimers(timers)
             /\ flows' = suspend(resume(flows, f), endGameEntry(game, winCheck.winner))
             /\ game' = game
        ELSE /\ game' = next.game
             /\ timers' = next.timers
             /\ flows' = suspend(resume(flows, f), next.flows)
     /\ UNCHANGED <<delayed, now, created>>

(* endGame after the winner is announced: cleanup *)
EndGameResume(w) ==
  LET f == Flow("endGame", 0, 0, w)
  IN /\ BagIn(f, flows)
     /\ game' = cleanup(game)
     /\ flows' = DropOrphans(resume(flows, f))
     /\ UNCHANGED <<timers, delayed, now, created>>

----------------------------------------------------------------------------
(* Player commands of the rounds *)

\* early-advance callbacks pending or about to be scheduled
KillsInFlight ==
  delayed + BagCardinality(restrict(flows, {"killCmd", "killCmd2", "killIntent", "killIntent2"}))

(* The text command kill <username>: attemptKill, up to the await of the
   reply.  A rejected attempt changes nothing; only a successful kill has a
   continuation that acts. *)
KillCmd(s, targetUsername, success) ==
  LET res == attemptKill(game, s, targetUsername, now, success)
  IN /\ attemptKillReject(game, s, targetUsername, now) = "none"
     /\ success => (CanSuspend /\ KillsInFlight < MaxDelayed)
     /\ game' = res.game
     /\ flows' = IF res.success THEN suspend(flows, {Flow("killCmd", s, 0, "")}) ELSE flows
     /\ UNCHANGED <<timers, delayed, now, created>>

(* The kill button kill-<inboxId>: the target must be in the roster, then
   attemptKill with the target's username *)
KillIntent(s, targetInboxId, success) ==
  LET targetUsername == getPlayer(game, targetInboxId).username
      res == attemptKill(game, s, targetUsername, now, success)
  IN /\ Has(game, targetInboxId)
     /\ attemptKillReject(game, s, targetUsername, now) = "none"
     /\ success => (CanSuspend /\ KillsInFlight < MaxDelayed)
     /\ game' = res.game
     /\ flows' = IF res.success THEN suspend(flows, {Flow("killIntent", s, 0, "")}) ELSE flows
     /\ UNCHANGED <<timers, delayed, now, created>>

\* after the reply to the sender: the lobby id is read
KillReplied(s, pc) ==
  LET f == Flow(pc, s, 0, "")
      pc2 == IF pc = "killCmd" THEN "killCmd2" ELSE "killIntent2"
  IN /\ pc \in {"killCmd", "killIntent"}
     /\ BagIn(f, flows)
     /\ flows' = suspend(resume(flows, f), (IF game.lobbyGroupId # Null THEN {Flow(pc2, s, 0, "")} ELSE {}))
     /\ UNCHANGED <<game, timers, delayed, now, created>>

(* kill command, lines 294-311: after the announcement to the group, the win
   check, then setTimeout of the advance to discussion *)
KillCmdAnnounced(s) ==
  LET f == Flow("killCmd2", s, 0, "")
      winCheck == checkWinCondition(game)
  IN /\ BagIn(f, flows)
     /\ IF winCheck.gameEnded
        THEN /\ timers' = clearAllTimers(timers)
             /\ flows' = suspend(resume(flows, f), endGameEntry(game, winCheck.winner))
             /\ UNCHANGED delayed
        ELSE /\ delayed' = delayed + 1
             /\ flows' = resume(flows, f)
             /\ UNCHANGED timers
     /\ UNCHANGED <<game, now, created>>

(* kill button, lines 164-186: the same, with clearPhaseTimer of the current
   round's kill timer before setTimeout *)
KillIntentAnnounced(s) ==
  LET f == Flow("killIntent2", s, 0, "")
      winCheck == checkWinCondition(game)
  IN /\ BagIn(f, flows)
     /\ IF winCheck.gameEnded
        THEN /\ timers' = clearAllTimers(timers)
             /\ flows' = suspend(resume(flows, f), endGameEntry(game, winCheck.winner))
             /\ UNCHANGED delayed
        ELSE /\ timers' = clearPhaseTimer(timers, "killPhase", game.round)
             /\ delayed' = delayed + 1
             /\ flows' = resume(flows, f)
     /\ UNCHANGED <<game, now, created>>

(* The setTimeout callback of both kill handlers: advancePhase, then
   startDiscussionPhase of the round the game is in *)
DelayedAdvance ==
  LET g1 == advancePhase(game)
  IN /\ delayed > 0
     /\ delayed' = delayed - 1
     /\ game' = g1
     /\ flows' = suspend(flows, startDiscussionPhaseEntry(g1, g1.round))
     /\ UNCHANGED <<timers, now, created>>

(* The text command vote <username> *)
VoteCmd(s, targetUsername) ==
  /\ castVoteAccepted(game, s, targetUsername)
  /\ game' = castVote(game, s, targetUsername)
  /\ UNCHANGED <<timers, flows, delayed, now, created>>

(* The vote button vote-<inboxId>: the checks, up to the await of the reply *)
voteIntentAccepted(g, s, targetInboxId) ==
  /\ Has(g, targetInboxId)
  /\ Has(g, s)
  /\ getPlayer(g, s).isAlive
  /\ isVotingPhase(g.state)

VoteIntent(s, targetInboxId) ==
  /\ CanSuspend
  /\ voteIntentAccepted(game, s, targetInboxId)
  /\ flows' = suspend(flows, {Flow("voteIntent", s, targetInboxId, "")})
  /\ UNCHANGED <<game, timers, delayed, now, created>>

\* after the reply: the vote is written to the voter
VoteIntentResume(s, targetInboxId) ==
  LET f == Flow("voteIntent", s, targetInboxId, "")
  IN /\ BagIn(f, flows)
     /\ game' = [game EXCEPT !.players[IndexOf(game, s)].voted = TRUE,
                             !.players[IndexOf(game, s)].voteTarget = targetInboxId]
     /\ flows' = resume(flows, f)
     /\ UNCHANGED <<timers, delayed, now, created>>

(* The text command /task <answer> *)
TaskCmd(s, isCorrect) ==
  /\ Has(game, s)
  /\ getPlayer(game, s).isAlive
  /\ getPlayer(game, s).role # "IMPOSTOR"
  /\ completeTaskAccepted(game, s, isCorrect)
  /\ game' = completeTask(game, s, isCorrect)
  /\ UNCHANGED <<timers, flows, delayed, now, created>>

----------------------------------------------------------------------------
Rounds == 1..MAX_ROUNDS
Names == Ids \cup {0}      \* usernames a command may name: 0 is nobody's

Next ==
  \/ Tick
  \/ \E s \in Ids : StartCmd(s) \/ StartSetupResume(s)
  \/ \E s \in Ids, n \in 1..MaxGroups : CreateLobbyResume(s, n)
  \/ \E j \in Ids : JoinCmd(j) \/ JoinIntent(j)
  \/ JoinWindowFire
  \/ AbortLobbyResume
  \/ StartGameResume
  \/ StartRoundOne
  \/ \E r \in Rounds :
       \/ StartTaskPhaseResume(r) \/ TaskTimerFire(r)
       \/ StartKillPhaseResume(r) \/ KillTimerFire(r)
       \/ StartDiscussionPhaseResume(r) \/ DiscussionTimerFire(r)
       \/ StartVotingPhaseResume(r) \/ VotingTimerFire(r)
       \/ ProcessVotingTally(r)
       \/ \E w \in {"eliminated", "none"} : AfterTally(r, w)
  \/ \E w \in {"CREW", "IMPOSTOR"} : EndGameResume(w)
  \/ \E s \in Ids, t \in Names, success \in BOOLEAN : KillCmd(s, t, success)
  \/ \E s \in Ids, t \in Ids, success \in BOOLEAN : KillIntent(s, t, success)
  \/ \E s \in Ids, pc \in {"killCmd", "killIntent"} : KillReplied(s, pc)
  \/ \E s \in Ids : KillCmdAnnounced(s) \/ KillIntentAnnounced(s)
  \/ DelayedAdvance
  \/ \E s \in Ids, t \in Names : VoteCmd(s, t)

(* The rounds with one lobby: the timers and phase functions, the kill
   command and button, the vote command. *)
Spec == Init /\ [][Next]_vars

(* The send of the cancellation notice returns: the abort of the lobby is
   not suspended for ever *)
SpecFair == Spec /\ WF_vars(AbortLobbyResume)

(* Every timer that is registered fires, every delayed callback runs, every
   send and lookup returns and the clock goes on; the players send what
   they like, or nothing. *)
Progress ==
  /\ WF_vars(Tick)
  /\ WF_vars(JoinWindowFire)
  /\ WF_vars(AbortLobbyResume)
  /\ WF_vars(StartGameResume)
  /\ WF_vars(StartRoundOne)
  /\ WF_vars(DelayedAdvance)
  /\ \A s \in Ids :
       /\ WF_vars(StartSetupResume(s))
       /\ WF_vars(KillCmdAnnounced(s))
       /\ WF_vars(KillIntentAnnounced(s))
       /\ \A n \in 1..MaxGroups : WF_vars(CreateLobbyResume(s, n))
       /\ \A pc \in {"killCmd", "killIntent"} : WF_vars(KillReplied(s, pc))
  /\ \A r \in Rounds :
       /\ WF_vars(StartTaskPhaseResume(r))
       /\ WF_vars(TaskTimerFire(r))
       /\ WF_vars(StartKillPhaseResume(r))
       /\ WF_vars(KillTimerFire(r))
       /\ WF_vars(StartDiscussionPhaseResume(r))
       /\ WF_vars(DiscussionTimerFire(r))
       /\ WF_vars(StartVotingPhaseResume(r))
       /\ WF_vars(VotingTimerFire(r))
       /\ WF_vars(ProcessVotingTally(r))
       /\ \A w \in {"eliminated", "none"} : WF_vars(AfterTally(r, w))
  /\ \A w \in {"CREW", "IMPOSTOR"} : WF_vars(EndGameResume(w))

SpecLive == Spec /\ Progress

(* Lobbies and sessions: senders who are not all players, /start messages
   that overlap, cancellation; the rounds run on their timers alone. *)
Senders == 1..NumSenders

NextSessions ==
  \/ Tick
  \/ \E s \in Senders : StartCmdUpTo(s, MaxSessions) \/ StartSetupResume(s)
  \/ \E s \in Senders, n \in 1..MaxSessions : CreateLobbyResume(s, n)
  \/ \E j \in Senders : JoinCmd(j) \/ JoinIntent(j)
  \/ JoinWindowFire
  \/ AbortLobbyResume
  \/ StartGameResume
  \/ StartRoundOne
  \/ \E r \in Rounds :
       \/ StartTaskPhaseResume(r) \/ TaskTimerFire(r)
       \/ StartKillPhaseResume(r) \/ KillTimerFire(r)
       \/ StartDiscussionPhaseResume(r) \/ DiscussionTimerFire(r)
       \/ StartVotingPhaseResume(r) \/ VotingTimerFire(r)
       \/ ProcessVotingTally(r)
       \/ AfterTally(r, "none")
  \/ EndGameResume("IMPOSTOR")

SpecSessions == Init /\ [][NextSessions]_vars

(* Voting: a session in the voting phase of round d + 1, with n players of
   whom the last d were voted out in the rounds before (one per round); the
   living players vote, the voting timer fires and the votes are tallied. *)
RECURSIVE AddPlayers(_, _)
AddPlayers(g, n) == IF n = 0 THEN g ELSE addPlayerAdmit(AddPlayers(g, n - 1), n)

ToVoting(g) == advancePhase(advancePhase(advancePhase(g)))

RECURSIVE VotingGame(_, _)
VotingGame(n, d) ==
  IF d = 0
  THEN ToVoting(startRound(assignRoles(AddPlayers(createLobby(NewGame, 1, 1, 1), n), 1), 1))
  ELSE ToVoting(startRound(advancePhase(eliminatePlayer(VotingGame(n, d - 1), n - d + 1)),
                           d + 1))

InitVote ==
  \E n \in MIN_PLAYERS_TO_START..MAX_PLAYERS, d \in 0..(MAX_ROUNDS - 1) :
    /\ d < n
    /\ game = resetVotes(VotingGame(n, d))
    /\ timers = {PhaseTimer("voting", d + 1)}
    /\ flows = EmptyBag
    /\ delayed = 0
    /\ now = 3
    /\ created = 1

NextVote ==
  \/ \E s \in 1..MAX_PLAYERS, t \in 1..MaxTargets : VoteCmd(s, t)
  \/ \E r \in Rounds :
       \/ VotingTimerFire(r)
       \/ ProcessVotingTally(r)
       \/ \E w \in {"eliminated", "none"} : AfterTally(r, w)
       \/ StartTaskPhaseResume(r)
  \/ \E w \in {"CREW", "IMPOSTOR"} : EndGameResume(w)

SpecVote == InitVote /\ [][NextVote]_vars

(* A full lobby: the creator and MAX_PLAYERS - 2 others have joined and their
   handlers have finished; NumJoiners more senders type /join.  Here addPlayer
   is followed across its awaits: when the roster is full it deletes the last
   entry and waits for removeMembers before it sets the newcomer, and it
   waits for addMembers before it returns to the handler. *)
NumJoiners == 3
MaxLobbyFlows == 3

Joiners == MAX_PLAYERS..(MAX_PLAYERS + NumJoiners - 1)

InitLobby ==
  /\ game = AddPlayers(createLobby(NewGame, 1, 1, 1), MAX_PLAYERS - 1)
  /\ timers = {TimerKey("joinWindow", 0, 1 + JOIN_WINDOW_DURATION_MS)}
  /\ flows = EmptyBag
  /\ delayed = 0
  /\ now = 1
  /\ created = 1

\* addPlayer from its checks to its first await
JoinCmdBegin(j) ==
  LET evicts == removedPlayer(game) # Null
      g1 == addPlayerEvict(game)
  IN /\ BagCardinality(flows) < MaxLobbyFlows
     /\ addPlayerAccepted(game, j, now)
     /\ IF evicts /\ game.lobbyGroupId # Null
        THEN /\ game' = g1
             /\ flows' = suspend(flows, {Flow("addPlayerEvict", j, removedPlayer(game), "")})
        ELSE /\ game' = addPlayerAdmit(g1, j)
             /\ flows' = suspend(flows, (IF game.lobbyGroupId # Null
                                         THEN {Flow("addPlayerAdmit", j, removedPlayer(game), "")}
                                         ELSE {}))
     /\ UNCHANGED <<timers, delayed, now, created>>

\* addPlayer after removeMembers: players.set, the state, then addMembers
AddPlayerEvicted(j, rp) ==
  LET f == Flow("addPlayerEvict", j, rp, "")
  IN /\ BagIn(f, flows)
     /\ game' = addPlayerAdmit(game, j)
     /\ flows' = suspend(resume(flows, f), (IF game.lobbyGroupId # Null
                                            THEN {Flow("addPlayerAdmit", j, rp, "")}
                                            ELSE {}))
     /\ UNCHANGED <<timers, delayed, now, created>>

\* addPlayer returns to the /join handler, which reads the state and the
\* group ids and then looks the groups up and sends the removal notices
AddPlayerAdmitted(j, rp) ==
  LET f == Flow("addPlayerAdmit", j, rp, "")
  IN /\ BagIn(f, flows)
     /\ flows' = suspend(resume(flows, f),
                         (IF /\ game.state = "WAITING_FOR_PLAYERS"
                             /\ game.lobbyGroupId # Null
                             /\ game.originalGroupId # Null
                          THEN {Flow("joinLookup", j, 0, "")}
                          ELSE {}))
     /\ UNCHANGED <<game, timers, delayed, now, created>>

\* the handler reads the roster, then sends the lobby status
JoinCmdSnapshot(j) ==
  LET f == Flow("joinLookup", j, 0, "")
  IN /\ BagIn(f, flows)
     /\ flows' = suspend(resume(flows, f), {Flow("joinConfirm", j, Len(game.players), "")})
     /\ UNCHANGED <<game, timers, delayed, now, created>>

\* after the sends: a full roster starts the game
JoinCmdConfirmed(j, n) ==
  LET f == Flow("joinConfirm", j, n, "")
  IN /\ BagIn(f, flows)
     /\ IF n >= MAX_PLAYERS
        THEN /\ timers' = clearPhaseTimer(timers, "joinWindow", 0)
             /\ \E idx \in 1..Len(game.players) :
                  /\ game' = startGameBegin(game, now, idx).game
                  /\ flows' = suspend(resume(flows, f), startGameBegin(game, now, idx).flows)
        ELSE /\ flows' = resume(flows, f)
             /\ UNCHANGED <<game, timers>>
     /\ UNCHANGED <<delayed, now, created>>

NextLobby ==
  \/ Tick
  \/ \E j \in Joiners :
       \/ JoinCmdBegin(j)
       \/ \E rp \in (1..(MAX_PLAYERS + NumJoiners - 1)) \cup {Null} :
            \/ AddPlayerEvicted(j, rp)
            \/ AddPlayerAdmitted(j, rp)
       \/ JoinCmdSnapshot(j)
       \/ \E n \in 0..(MAX_PLAYERS + NumJoiners) : JoinCmdConfirmed(j, n)
  \/ JoinWindowFire

SpecLobby == InitLobby /\ [][NextLobby]_vars

(* A late admission: the lobby of InitLobby after three /join commands.
   Sender MAX_PLAYERS joined and filled the roster; sender Latecomer typed
   /join, addPlayer deleted the last entry and waits for removeMembers; the
   same sender typed /join again, was set in the roster at once and that
   handler is about to send its lobby status.  The game starts, round 1 runs
   to its kill phase and the impostor sends kill commands for the
   latecomer. *)
Latecomer == MAX_PLAYERS + 1

InitEvict ==
  /\ game = addPlayerAdmit(AddPlayers(createLobby(NewGame, 1, 1, 1), MAX_PLAYERS - 1),
                           Latecomer)
  /\ timers = {TimerKey("joinWindow", 0, 1 + JOIN_WINDOW_DURATION_MS)}
  /\ flows = SetToBag({Flow("addPlayerEvict", Latecomer, MAX_PLAYERS, ""),
                       Flow("joinConfirm", Latecomer, MAX_PLAYERS, "")})
  /\ delayed = 0
  /\ now = 1
  /\ created = 1

NextEvict ==
  \/ Tick
  \/ AddPlayerEvicted(Latecomer, MAX_PLAYERS)
  \/ AddPlayerAdmitted(Latecomer, MAX_PLAYERS)
  \/ JoinCmdSnapshot(Latecomer)
  \/ JoinCmdConfirmed(Latecomer, MAX_PLAYERS)
  \/ JoinWindowFire
  \/ StartGameResume
  \/ StartRoundOne
  \/ StartTaskPhaseResume(1)
  \/ TaskTimerFire(1)
  \/ StartKillPhaseResume(1)
  \/ \E s \in 1..MAX_PLAYERS :
       \/ KillCmd(s, Latecomer, TRUE)
       \/ KillReplied(s, "killCmd")
       \/ KillCmdAnnounced(s)
  \/ DelayedAdvance
  \/ StartDiscussionPhaseResume(1)

SpecEvict == InitEvict /\ [][NextEvict]_vars

(* A second session: the first game is in the kill phase of round 1 with
   ReplayPlayers players, the first of them the impostor; it is played to
   its end (the votes go to the first ReplayTargets players), the session is
   reset, and a sender types /start again. *)
ReplayPlayers == 3
ReplayTargets == 1

InitReplay ==
  /\ game = advancePhase(startRound(assignRoles(
               AddPlayers(createLobby(NewGame, 1, 1, 1), ReplayPlayers), 1), 1))
  /\ timers = {PhaseTimer("killPhase", 1)}
  /\ flows = EmptyBag
  /\ delayed = 0
  /\ now = 3
  /\ created = 1

NextReplay ==
  \/ Tick
  \/ \E s \in 1..ReplayPlayers :
       \/ StartCmdUpTo(s, MaxSessions)
       \/ CreateLobbyResume(s, MaxSessions)
       \/ StartSetupResume(s)
       \/ \E t \in 1..ReplayPlayers, success \in BOOLEAN : KillCmd(s, t, success)
       \/ \E t \in 1..ReplayTargets : VoteCmd(s, t)
       \/ KillReplied(s, "killCmd")
       \/ KillCmdAnnounced(s)
  \/ DelayedAdvance
  \/ JoinWindowFire
  \/ AbortLobbyResume
  \/ \E r \in Rounds :
       \/ StartTaskPhaseResume(r)
       \/ TaskTimerFire(r)
       \/ StartKillPhaseResume(r)
       \/ KillTimerFire(r)
       \/ StartDiscussionPhaseResume(r)
       \/ DiscussionTimerFire(r)
       \/ StartVotingPhaseResume(r)
       \/ VotingTimerFire(r)
       \/ ProcessVotingTally(r)
       \/ \E w \in {"eliminated", "none"} : AfterTally(r, w)
  \/ \E w \in {"CREW", "IMPOSTOR"} : EndGameResume(w)

SpecReplay == InitReplay /\ [][NextReplay]_vars

(* Ballots: the voting phase of round d + 1 of a game of BallotPlayers
   players, the last d of them voted out before; votes come in by the text
   command and by the vote button, the voting timer fires and the votes
   are tallied. *)
BallotPlayers == 3
BallotRounds == 2

InitBallot ==
  \E d \in 0..(BallotRounds - 1) :
    /\ game = resetVotes(VotingGame(BallotPlayers, d))
    /\ timers = {PhaseTimer("voting", d + 1)}
    /\ flows = EmptyBag
    /\ delayed = 0
    /\ now = 3
    /\ created = 1

NextBallot ==
  \/ \E s \in 1..BallotPlayers, t \in 1..BallotPlayers :
       \/ VoteCmd(s, t)
       \/ VoteIntent(s, t)
       \/ VoteIntentResume(s, t)
  \/ \E r \in Rounds :
       \/ VotingTimerFire(r)
       \/ ProcessVotingTally(r)
       \/ \E w \in {"eliminated", "none"} : AfterTally(r, w)
       \/ StartTaskPhaseResume(r)
  \/ EndGameResume("CREW")

SpecBallot == InitBallot /\ [][NextBallot]_vars

(* Tasks: a game of TaskPlayers players, the first of them the impostor, at
   the start of the task phase of round 1; the players answer their tasks,
   the impostor sends kill commands, the rounds run on their timers and
   nobody votes. *)
TaskPlayers == 2

InitTasks ==
  /\ game = startRound(assignRoles(
               AddPlayers(createLobby(NewGame, 1, 1, 1), TaskPlayers), 1), 1)
  /\ timers = {PhaseTimer("taskPhase", 1)}
  /\ flows = EmptyBag
  /\ delayed = 0
  /\ now = 3
  /\ created = 1

NextTasks ==
  \/ \E s \in 1..TaskPlayers :
       \/ \E isCorrect \in BOOLEAN : TaskCmd(s, isCorrect)
       \/ \E t \in 1..TaskPlayers, success \in BOOLEAN : KillCmd(s, t, success)
       \/ KillReplied(s, "killCmd")
       \/ KillCmdAnnounced(s)
  \/ DelayedAdvance
  \/ \E r \in Rounds :
       \/ StartTaskPhaseResume(r)
       \/ TaskTimerFire(r)
       \/ StartKillPhaseResume(r)
       \/ KillTimerFire(r)
       \/ StartDiscussionPhaseResume(r)
       \/ DiscussionTimerFire(r)
       \/ StartVotingPhaseResume(r)
       \/ VotingTimerFire(r)
       \/ ProcessVotingTally(r)
       \/ AfterTally(r, "none")
  \/ EndGameResume("IMPOSTOR")

SpecTasks == InitTasks /\ [][NextTasks]_vars

(* Cancellation: an open lobby of CancelPlayers players whose join window is
   running; a player clicks the cancel-game button, the window closes and
   the game runs on its timers. *)
CancelPlayers == 2

InitCancel ==
  /\ game = AddPlayers(createLobby(NewGame, 1, 1, 1), CancelPlayers)
  /\ timers = {TimerKey("joinWindow", 0, 1 + JOIN_WINDOW_DURATION_MS)}
  /\ flows = EmptyBag
  /\ delayed = 0
  /\ now = 1
  /\ created = 1

NextCancel ==
  \/ Tick
  \/ CancelIntent
  \/ CancelResume
  \/ JoinWindowFire
  \/ StartGameResume
  \/ StartRoundOne
  \/ \E r \in Rounds :
       \/ StartTaskPhaseResume(r)
       \/ TaskTimerFire(r)
       \/ StartKillPhaseResume(r)
       \/ KillTimerFire(r)
       \/ StartDiscussionPhaseResume(r)
       \/ DiscussionTimerFire(r)
       \/ StartVotingPhaseResume(r)
       \/ VotingTimerFire(r)
       \/ ProcessVotingTally(r)
       \/ AfterTally(r, "none")
  \/ EndGameResume("IMPOSTOR")

SpecCancel == InitCancel /\ [][NextCancel]_vars

(* Failures of the collaborator.  The lookup of the lobby group answers
   nothing, or the send of the announcement throws: startTaskPhase and
   startDiscussionPhase return (lines 706-707, 831-832) or are left by the
   exception before they register their timer; endGame returns (946-947) or
   is left by the exception before cleanup. *)
StartTaskPhaseFails(r) ==
  LET f == Flow("startTaskPhase", 0, r, "")
  IN /\ BagIn(f, flows)
     /\ flows' = resume(flows, f)
     /\ UNCHANGED <<game, timers, delayed, now, created>>

StartDiscussionPhaseFails(r) ==
  LET f == Flow("startDiscussionPhase", 0, r, "")
  IN /\ BagIn(f, flows)
     /\ flows' = resume(flows, f)
     /\ UNCHANGED <<game, timers, delayed, now, created>>

EndGameFails(w) ==
  LET f == Flow("endGame", 0, 0, w)
  IN /\ BagIn(f, flows)
     /\ flows' = resume(flows, f)
     /\ UNCHANGED <<game, timers, delayed, now, created>>

(* A game of FailurePlayers players at the start of round 1, startTaskPhase(1)
   just called; the rounds run on their timers, the players vote, and a
   lookup or a send of the phase entries and of endGame may fail. *)
FailurePlayers == 2

InitFailure ==
  LET g == startRound(assignRoles(
               AddPlayers(createLobby(NewGame, 1, 1, 1), FailurePlayers), 1), 1)
  IN /\ game = g
     /\ timers = {}
     /\ flows = SetToBag(startTaskPhaseEntry(g, 1))
     /\ delayed = 0
     /\ now = 3
     /\ created = 1

NextFailure ==
  \/ \E s \in 1..FailurePlayers, t \in 1..FailurePlayers : VoteCmd(s, t)
  \/ \E r \in Rounds :
       \/ StartTaskPhaseResume(r)
       \/ StartTaskPhaseFails(r)
       \/ TaskTimerFire(r)
       \/ StartKillPhaseResume(r)
       \/ KillTimerFire(r)
       \/ StartDiscussionPhaseResume(r)
       \/ StartDiscussionPhaseFails(r)
       \/ DiscussionTimerFire(r)
       \/ StartVotingPhaseResume(r)
       \/ VotingTimerFire(r)
       \/ ProcessVotingTally(r)
       \/ \E w \in {"eliminated", "none"} : AfterTally(r, w)
  \/ \E w \in {"CREW", "IMPOSTOR"} : EndGameResume(w) \/ EndGameFails(w)

SpecFailure == InitFailure /\ [][NextFailure]_vars

----------------------------------------------------------------------------
(* Properties *)

PhaseState(r, phase) == "ROUND_" \o ToString(r) \o "_" \o phase

\* a callback that only consumes its own timer k
SilentNoOp(k) == game' = game /\ timers' = timers \ {k} /\ flows' = flows

(* C1: a phase timeout callback of round r (task, kill, discussion, voting)
   that fires while the session is not in that phase of round r is a silent
   no-op: state, round, roster and pending timers stay as they are.  The
   voting callback is processVoting, whose steps after its awaits are the
   tally and what follows it. *)
StaleTimeoutIsNoOp ==
  [][\A r \in Rounds :
       /\ TaskTimerFire(r) /\ game.state # PhaseState(r, "TASKS")
            => SilentNoOp(PhaseTimer("taskPhase", r))
       /\ KillTimerFire(r) /\ game.state # PhaseState(r, "KILL")
            => SilentNoOp(PhaseTimer("killPhase", r))
       /\ DiscussionTimerFire(r) /\ game.state # PhaseState(r, "DISCUSSION")
            => SilentNoOp(PhaseTimer("discussion", r))
       /\ (ProcessVotingTally(r) \/ \E w \in {"eliminated", "none"} : AfterTally(r, w))
            /\ game.state # PhaseState(r, "VOTING")
            => game' = game /\ timers' = timers
    ]_vars

isDiscussionPhase(s) == \E r \in Rounds : s = PhaseState(r, "DISCUSSION")

(* C2: the kill-phase timeout and the early-advance delayed callback together
   advance the session once, from the kill phase to the discussion phase:
   neither of them changes the state out of any other phase. *)
KillAdvancesOnce ==
  [][(DelayedAdvance \/ \E r \in Rounds : KillTimerFire(r))
       /\ game'.state # game.state
       => isKillPhase(game.state) /\ isDiscussionPhase(game'.state)]_vars

(* C3: when a kill handler schedules the delayed transition to discussion,
   the kill-phase timer of the current round is no longer pending; this holds
   for the text command and for the button. *)
KillTimerCancelledBeforeDelay ==
  [][\A s \in Ids :
       (KillCmdAnnounced(s) \/ KillIntentAnnounced(s)) /\ delayed' = delayed + 1
       => PhaseTimer("killPhase", game.round) \notin timers']_vars

\* the edges of the state graph; a lobby that is aborted returns to IDLE
GraphEdge(a, b) ==
  \/ a = "IDLE" /\ b = "LOBBY_CREATED"
  \/ a = "LOBBY_CREATED" /\ b \in {"WAITING_FOR_PLAYERS", "IDLE"}
  \/ a = "WAITING_FOR_PLAYERS" /\ b \in {"ASSIGN_ROLES", "IDLE"}
  \/ a = "ASSIGN_ROLES" /\ b = PhaseState(1, "TASKS")
  \/ \E r \in Rounds :
       \/ a = PhaseState(r, "TASKS") /\ b = PhaseState(r, "KILL")
       \/ a = PhaseState(r, "KILL") /\ b = PhaseState(r, "DISCUSSION")
       \/ a = PhaseState(r, "DISCUSSION") /\ b = PhaseState(r, "VOTING")
       \/ a = PhaseState(r, "VOTING") /\ r < MAX_ROUNDS /\ b = PhaseState(r + 1, "TASKS")
       \/ a = PhaseState(r, "VOTING") /\ r = MAX_ROUNDS /\ b = "GAME_END"
  \/ a = "GAME_END" /\ b = "IDLE"

\* the /start handler calls createLobby and addPlayer without a suspension
\* between them: two edges in one step
StartEdges ==
  /\ \E s \in Ids, n \in 1..MaxGroups : CreateLobbyResume(s, n)
  /\ GraphEdge(game.state, "LOBBY_CREATED")
  /\ GraphEdge("LOBBY_CREATED", game'.state)

(* C4: every change of the session state is an edge of the state graph; after
   play the session reaches IDLE only through GAME_END. *)
OnlyGraphEdges ==
  [][game'.state # game.state
       => GraphEdge(game.state, game'.state) \/ StartEdges]_vars

(* C5: from the moment assignRoles completes until the session is reset,
   exactly one roster player has the IMPOSTOR role, that player is the one
   impostorInboxId records, every other roster player has the CREW role, and
   the role counts sum to the roster size. *)
OneImpostor ==
  game.impostorInboxId # Null =>
    LET imps == { i \in 1..Len(game.players) : game.players[i].role = "IMPOSTOR" }
        crew == { i \in 1..Len(game.players) : game.players[i].role = "CREW" }
    IN /\ Cardinality(imps) = 1
       /\ \A i \in imps : game.players[i].inboxId = game.impostorInboxId
       /\ Cardinality(imps) + Cardinality(crew) = Len(game.players)
       /\ Len(game.players) \in MIN_PLAYERS_TO_START..MAX_PLAYERS

\* the impostor has been voted out and the session is not yet reset
ImpostorVotedOut ==
  /\ Has(game, game.impostorInboxId)
  /\ ~getPlayer(game, game.impostorInboxId).isAlive

(* C6: once the impostor is voted out the session ends at once: no further
   phase is entered, no next round is started, the end of the game leaves no
   phase timer scheduled, and the only change of the session is its reset. *)
CrewWinsAtOnce ==
  [][ImpostorVotedOut =>
       /\ (game'.state = game.state /\ game'.round = game.round) \/ game' = NewGame
       /\ game' = NewGame => timers' = {}]_vars

ImpostorAlive ==
  /\ Has(game, game.impostorInboxId)
  /\ getPlayer(game, game.impostorInboxId).isAlive

EndGamePending(w) == BagIn(Flow("endGame", 0, 0, w), flows)

(* C7: when the tally of round MAX_ROUNDS has been processed and the impostor
   is still alive (an ally was eliminated, or nobody), processVoting ends the
   game with the impostor as the winner: no other phase or round is entered,
   and the end of the game resets the session. *)
ImpostorSurvives ==
  [][/\ (ImpostorAlive /\ \E w \in {"eliminated", "none"} : AfterTally(MAX_ROUNDS, w))
          => /\ EndGamePending("IMPOSTOR")'
             /\ ~EndGamePending("CREW")' \/ EndGamePending("CREW")
             /\ game' = game
     /\ EndGameResume("IMPOSTOR") => game' = NewGame]_vars

\* the last round's tally left the impostor alive, the game is ending
ImpostorSurvivesCase ==
  /\ ImpostorAlive
  /\ game.round = MAX_ROUNDS
  /\ game.state = PhaseState(MAX_ROUNDS, "VOTING")
  /\ EndGamePending("IMPOSTOR")

(* C8: checkWinCondition reports a win of the impostor only after the tally of
   round MAX_ROUNDS; it reports none before that tally, as while
   startVotingPhase is still announcing the voting of round MAX_ROUNDS. *)
NoImpostorWinBeforeTally ==
  /\ BagIn(Flow("startVotingPhase", 0, MAX_ROUNDS, ""), flows)
  /\ game.state = PhaseState(MAX_ROUNDS, "VOTING")
  => checkWinCondition(game).winner # "IMPOSTOR"

----------------------------------------------------------------------------
(* The tally, stated from the votes *)

VotesFor(g, t) ==
  Cardinality({ i \in 1..Len(g.players) :
                  g.players[i].isAlive /\ g.players[i].voted /\ g.players[i].voteTarget = t })

TopVotes(g) ==
  LET counts == { VotesFor(g, t) : t \in RosterIds(g) }
  IN IF counts = {} THEN 0 ELSE CHOOSE m \in counts : \A c \in counts : c <= m

TopTargets(g) == { t \in RosterIds(g) : VotesFor(g, t) = TopVotes(g) /\ TopVotes(g) > 0 }

CeilHalf(n) == IF n % 2 = 0 THEN n \div 2 ELSE n \div 2 + 1

\* the players whose alive status the step changes
AliveChanged ==
  { game.players[i].inboxId : i \in { j \in 1..Len(game.players) :
        j > Len(game'.players) \/ game'.players[j].isAlive # game.players[j].isAlive } }

(* C9: when the votes of a round are tallied with aliveCount living players,
   the top-voted target is eliminated if its votes are at least
   ceil(aliveCount / 2), and only then: otherwise, and when no vote was cast,
   no player's alive status changes. *)
MajorityEliminates ==
  [][\A r \in Rounds : ProcessVotingTally(r) =>
       IF TopVotes(game) > 0 /\ TopVotes(game) >= CeilHalf(Cardinality(AliveIds(game)))
       THEN \E t \in TopTargets(game) :
              /\ ~getPlayer(game', t).isAlive
              /\ t \in game'.eliminatedPlayers
              /\ AliveChanged \subseteq {t}
       ELSE AliveChanged = {}]_vars

\* three of five living players voted for the player the tally eliminated
MajorityOfFive ==
  /\ \E r \in Rounds : BagIn(Flow("afterTally", 0, r, "eliminated"), flows)
  /\ Cardinality(AliveIds(game)) = 4
  /\ \E t \in game.eliminatedPlayers :
       Cardinality({ i \in 1..Len(game.players) : game.players[i].voteTarget = t }) = 3

(* C10: when two or more targets share the highest vote count of a tally, the
   tally eliminates nobody. *)
TieEliminatesNobody ==
  [][\A r \in Rounds :
       ProcessVotingTally(r) /\ Cardinality(TopTargets(game)) >= 2
       => AliveChanged = {}]_vars

(* C11: the roster never holds more than MAX_PLAYERS players, also while
   several addPlayer calls overlap across their awaits. *)
RosterWithinMax == Len(game.players) <= MAX_PLAYERS

\* two overlapping addPlayer calls have made a roster of MAX_PLAYERS + 1
RosterOverfull == Len(game.players) > MAX_PLAYERS

\* the position of the newest entry that is not the hosting agent's, 0 if none
NewestGuest(g) ==
  LET guests == { i \in 1..Len(g.players) : g.players[i].inboxId # AgentInboxId }
  IN IF guests = {} THEN 0 ELSE CHOOSE i \in guests : \A k \in guests : k <= i

\* an accepted addPlayer of j finds the roster full
FullLobbyJoin(j) == JoinCmdBegin(j) /\ Len(game.players) >= MAX_PLAYERS

(* C12: an accepted addPlayer on a full roster takes out exactly one entry,
   the newest one that is not the hosting agent's, hands it back as
   removedPlayer, and then puts the newcomer in as the newest entry. *)
EvictsNewestGuest ==
  [][\A j \in Joiners :
       /\ FullLobbyJoin(j) =>
            LET e == NewestGuest(game)
            IN /\ e # 0
               /\ game.players[e].inboxId # AgentInboxId
               /\ game'.players = RemoveAt(game.players, e)
               /\ BagIn(Flow("addPlayerEvict", j, game.players[e].inboxId, ""), flows')
       /\ \A rp \in 1..(MAX_PLAYERS + NumJoiners - 1) :
            AddPlayerEvicted(j, rp) =>
              /\ Len(game'.players) >= 1
              /\ game'.players[Len(game'.players)].inboxId = j
              /\ \A i \in 1..Len(game.players) :
                   game.players[i].inboxId # j => game'.players[i] = game.players[i]
    ]_vars

(* A second lobby is open and its game has not started (round 0: phase
   functions run in rounds 1 and up, and only cleanup takes the round back
   to 0).  Every phase timer and every early-advance delay still pending was
   set up by the session before it. *)
SecondLobbyOpen ==
  /\ created = MaxSessions
  /\ game.state \in {"LOBBY_CREATED", "WAITING_FOR_PLAYERS"}
  /\ game.lobbyGroupId = MaxSessions
  /\ game.round = 0

\* a phase timer or an early-advance delay fires
PhaseCallbackFires ==
  \/ DelayedAdvance
  \/ \E r \in Rounds :
       \/ TaskTimerFire(r)
       \/ KillTimerFire(r)
       \/ DiscussionTimerFire(r)
       \/ VotingTimerFire(r)

(* C13: once a session has ended and been reset, a callback it left behind
   (a phase timer, an early-advance delay) does nothing when it fires, also
   when the next session's lobby is already open: it changes no session
   field, registers no timer and starts no phase function. *)
NoStaleCallback ==
  [][(SecondLobbyOpen /\ PhaseCallbackFires) =>
       /\ game' = game
       /\ timers' \subseteq timers
       /\ flows' = flows
    ]_vars

\* the join-window timeout has found too few players and is about to abort
AbortPending == BagIn(Flow("abortLobby", 0, 0, ""), flows)

\* the session as it is after construction, and no timer registered
FreshSession == game = NewGame /\ timers = {}

(* C14: when the join-window timeout fires in WAITING_FOR_PLAYERS and the
   game cannot start, the lobby is aborted: every timer is cancelled and the
   session becomes the initial IDLE session again, with an empty roster and
   nothing left of the lobby. *)
TimeoutAbortsLobby == AbortPending ~> FreshSession

\* the timeout fired on a lobby that only its creator had joined
LobbyTimedOut ==
  /\ AbortPending
  /\ game.state = "WAITING_FOR_PLAYERS"
  /\ ~canStartGame(game, now)
  /\ Len(game.players) < MIN_PLAYERS_TO_START

(* C15: whatever state cleanup() is called in, every field of the session it
   leaves equals the field of a freshly constructed one. *)
CleanupIsConstruction == cleanup(game) = NewGame

\* cleanup is applied to a session that differs from a fresh one in its
\* state, round, roster, losses, impostor, group ids and timestamps
CleanupOfPlayedGame ==
  /\ BagIn(Flow("endGame", 0, 0, "CREW"), flows)
  /\ game.state # "IDLE"
  /\ game.round > 0
  /\ Len(game.players) > 0
  /\ game.eliminatedPlayers # {}
  /\ game.impostorInboxId # Null
  /\ game.lobbyGroupId # Null
  /\ game.originalGroupId # Null
  /\ game.startTime # Null
  /\ game.joinDeadline # Null

\* sender s made a qualifying attempt in this round less than killCooldown ago
CooldownRunning(s) ==
  /\ Has(game, s)
  /\ getPlayer(game, s).lastKillAttempt # Null
  /\ now - getPlayer(game, s).lastKillAttempt < game.killCooldown

\* s is the living impostor in a kill phase and t names a living player other than s
KillWouldQualify(s, t) ==
  /\ Has(game, s)
  /\ getPlayer(game, s).isAlive
  /\ getPlayer(game, s).role = "IMPOSTOR"
  /\ isKillPhase(game.state)
  /\ \E i \in 1..Len(game.players) :
       /\ game.players[i].username = t
       /\ game.players[i].isAlive
       /\ game.players[i].inboxId # s

\* the fields a kill attempt writes are the same in g and h
SameKillFields(g, h) ==
  /\ Len(g.players) = Len(h.players)
  /\ \A i \in 1..Len(g.players) :
       /\ g.players[i].killAttempts = h.players[i].killAttempts
       /\ g.players[i].lastKillAttempt = h.players[i].lastKillAttempt
       /\ g.players[i].isAlive = h.players[i].isAlive

(* C16: a kill attempt made less than killCooldown after the sender's last
   qualifying attempt of the round is rejected, whatever the draw would
   have been, and changes no attempt counter, no attempt time and nobody's
   alive status. *)
CooldownRejects ==
  \A s \in Ids, t \in Names, success \in BOOLEAN :
    CooldownRunning(s) =>
      /\ ~attemptKill(game, s, t, now, success).success
      /\ SameKillFields(attemptKill(game, s, t, now, success).game, game)

\* the impostor's first attempt of the round has just failed: a second one
\* on a living player is held back by the cooldown alone
SecondAttemptTooSoon ==
  \E s \in Ids, t \in Names :
    /\ CooldownRunning(s)
    /\ KillWouldQualify(s, t)
    /\ getPlayer(game, s).killAttempts = 1
    /\ getPlayer(game, s).killAttempts < game.maxKillAttempts

\* nobody has made more qualifying attempts than the round allows
AttemptsWithinCap ==
  \A i \in 1..Len(game.players) : game.players[i].killAttempts <= game.maxKillAttempts

\* a sender who has used every attempt of the round is turned down, at any
\* time and whatever the draw would have been, and nobody dies
CapRejects ==
  \A s \in Ids, t \in Names, success \in BOOLEAN :
    (Has(game, s) /\ getPlayer(game, s).killAttempts = game.maxKillAttempts) =>
      /\ ~attemptKill(game, s, t, now, success).success
      /\ SameKillFields(attemptKill(game, s, t, now, success).game, game)

\* a player of the roster had made attempts and has none after the step
CounterCleared ==
  \E id \in Ids :
    /\ Has(game, id) /\ Has(game', id)
    /\ getPlayer(game, id).killAttempts > 0
    /\ getPlayer(game', id).killAttempts = 0

(* C17: killAttempts never exceeds maxKillAttempts; a sender whose counter
   equals maxKillAttempts is rejected without any elimination, also after
   the cooldown has elapsed; and the counter goes back to 0 only in a step
   that runs startRound. *)
AttemptCapHolds ==
  /\ [](AttemptsWithinCap /\ CapRejects)
  /\ [][CounterCleared => \E r \in Rounds : game' = startRound(game, r)]_vars

\* the impostor has used both attempts, the cooldown is over, the kill phase
\* goes on and a living player could be named
CapReachedAfterCooldown ==
  \E s \in Ids, t \in Names :
    /\ KillWouldQualify(s, t)
    /\ getPlayer(game, s).killAttempts = game.maxKillAttempts
    /\ ~CooldownRunning(s)

\* a per-round field of a roster member is set back in the step
PerRoundFieldReset ==
  \E id \in Ids :
    /\ Has(game, id) /\ Has(game', id)
    /\ \/ getPlayer(game, id).killAttempts > 0 /\ getPlayer(game', id).killAttempts = 0
       \/ getPlayer(game, id).voted /\ ~getPlayer(game', id).voted
       \/ getPlayer(game, id).voteTarget # Null /\ getPlayer(game', id).voteTarget = Null

\* the step starts the next round
RoundStarts ==
  /\ game'.round = game.round + 1
  /\ game'.round \in Rounds
  /\ game'.state = getStateForRoundPhase(game'.round, "TASKS")

(* C18: killAttempts, voted and voteTarget are reset once per round, in the
   step that starts the round: no phase entry, timeout or rollover inside
   the round sets them back again. *)
ResetOnlyAtRoundStart == [][PerRoundFieldReset => RoundStarts]_vars

KillStates == {"ROUND_1_KILL", "ROUND_2_KILL", "ROUND_3_KILL"}

\* s is not in the roster, or is dead, or is not the impostor
NotLivingImpostor(s) ==
  \/ ~Has(game, s)
  \/ ~getPlayer(game, s).isAlive
  \/ getPlayer(game, s).role # "IMPOSTOR"

\* the living players that the name t stands for
LivingNamed(t) ==
  { i \in 1..Len(game.players) : game.players[i].username = t /\ game.players[i].isAlive }

\* the reasons attemptKill gives for the four rejections
RuleReasons ==
  { "Only the mafia can attempt kills.", "It's not the kill phase yet.",
    "not found or already eliminated", "You cannot kill yourself." }

(* C19: attemptKill by a sender who is not the living impostor, or outside
   the kill phases, or for a name that stands for no living player, or for
   the sender's own name, answers with a failure and its reason and leaves
   the whole session as it was. *)
RuleRejectionsChangeNothing ==
  \A s \in 1..NumSenders, t \in Names, success \in BOOLEAN :
    ( \/ NotLivingImpostor(s)
      \/ game.state \notin KillStates
      \/ LivingNamed(t) = {}
      \/ \E i \in LivingNamed(t) : game.players[i].inboxId = s ) =>
      /\ ~attemptKill(game, s, t, now, success).success
      /\ attemptKill(game, s, t, now, success).game = game
      /\ attemptKillReject(game, s, t, now) \in RuleReasons

\* in a kill phase the living impostor, with attempts left and no cooldown
\* running, names itself: only the self-target rule stands in the way
ImpostorNamesItself ==
  \E s \in Ids :
    /\ ~NotLivingImpostor(s)
    /\ game.state \in KillStates
    /\ \E i \in LivingNamed(s) : game.players[i].inboxId = s
    /\ ~CooldownRunning(s)
    /\ getPlayer(game, s).killAttempts < game.maxKillAttempts

\* the kill command or the kill button of s, naming t, is taken up as a
\* qualifying attempt
QualifyingAttempt(s, t, success) == KillCmd(s, t, success) \/ KillIntent(s, t, success)

(* C20: a qualifying kill attempt adds exactly 1 to the sender's killAttempts
   and sets lastKillAttempt to the time of the attempt, whatever the draw;
   a successful draw makes the target, and nobody else, not alive and adds
   it to the eliminated set; a failed draw changes nobody's alive status. *)
QualifyingAttemptCounts ==
  [][\A s \in Ids, t \in Ids, success \in BOOLEAN :
       QualifyingAttempt(s, t, success) =>
         /\ getPlayer(game', s).killAttempts = getPlayer(game, s).killAttempts + 1
         /\ getPlayer(game', s).lastKillAttempt = now
         /\ \A id \in RosterIds(game) \ {s} :
              getPlayer(game', id).killAttempts = getPlayer(game, id).killAttempts
         /\ IF success
            THEN /\ ~getPlayer(game', t).isAlive
                 /\ game'.eliminatedPlayers = game.eliminatedPlayers \cup {t}
                 /\ \A id \in RosterIds(game) \ {t} :
                      getPlayer(game', id).isAlive = getPlayer(game, id).isAlive
            ELSE /\ game'.eliminatedPlayers = game.eliminatedPlayers
                 /\ \A id \in RosterIds(game) :
                      getPlayer(game', id).isAlive = getPlayer(game, id).isAlive
    ]_vars

\* the impostor's second attempt of the round has killed: the first one had
\* failed and was counted too
SecondAttemptKilled ==
  \E s \in Ids, t \in Ids :
    /\ game.state \in KillStates
    /\ ~NotLivingImpostor(s)
    /\ getPlayer(game, s).killAttempts = 2
    /\ getPlayer(game, s).lastKillAttempt = now
    /\ Has(game, t) /\ ~getPlayer(game, t).isAlive
    /\ t \in game.eliminatedPlayers

(* C21: a vote by a voter who has already voted in the voting phase changes
   nothing: while the voter stays marked as having voted, the recorded
   voteTarget stays what it was, by the text command and by the button. *)
SecondVoteIsNoOp ==
  [][\A id \in 1..MAX_PLAYERS :
       ( /\ Has(game, id) /\ Has(game', id)
         /\ getPlayer(game, id).voted /\ getPlayer(game', id).voted ) =>
         getPlayer(game', id).voteTarget = getPlayer(game, id).voteTarget
    ]_vars

\* id is in the roster, not alive, and in the eliminated set
Eliminated(g, id) ==
  /\ Has(g, id)
  /\ ~getPlayer(g, id).isAlive
  /\ id \in g.eliminatedPlayers

(* C22: elimination is irreversible within a session: a roster player who
   is not alive is in the eliminated set, and stays not alive and in the
   set in every later state until cleanup resets the session. *)
EliminationIsFinal ==
  /\ [](\A id \in Ids : (Has(game, id) /\ ~getPlayer(game, id).isAlive) => Eliminated(game, id))
  /\ [][\A id \in Ids :
          Eliminated(game, id) => (Eliminated(game', id) \/ game' = NewGame)]_vars

\* a player eliminated in an earlier round is still out after the next
\* round has started and reset the living players
StillOutNextRound ==
  \E id \in Ids :
    /\ Eliminated(game, id)
    /\ game.round >= 2
    /\ isKillPhase(game.state)

\* the step records a vote of some voter for target t
VoteRecordedFor(t) ==
  \E id \in 1..MAX_PLAYERS :
    /\ Has(game, id) /\ Has(game', id)
    /\ getPlayer(game', id).voted
    /\ getPlayer(game', id).voteTarget = t
    /\ getPlayer(game, id).voteTarget # t

\* the step is a tally that eliminates t
TallyEliminates(t) ==
  /\ \E r \in Rounds : ProcessVotingTally(r)
  /\ tallyEliminates(game) = t

(* C23: an eliminated player is never accepted as a target: no vote, by
   command or by button, is recorded for a player who is eliminated, and no
   tally picks a player who is eliminated already. *)
NoEliminatedTarget ==
  [][\A t \in 1..MAX_PLAYERS :
       (VoteRecordedFor(t) \/ TallyEliminates(t)) => ~Eliminated(game, t)
    ]_vars

\* the session without the votes its eliminated players once recorded
WithoutGhostVotes(g) ==
  [g EXCEPT !.players = [i \in 1..Len(g.players) |->
                           IF g.players[i].isAlive THEN g.players[i]
                           ELSE [g.players[i] EXCEPT !.voted = FALSE,
                                                     !.voteTarget = Null]]]

NotAlive(g, s) == Has(g, s) /\ ~getPlayer(g, s).isAlive

(* The checks at the head of each handler: a vote by command or by button,
   a task answer and a kill attempt of a sender who is not alive are refused
   and leave the session as it is, and the votes an eliminated player
   recorded before do not count in a tally. *)
EliminatedSenderIgnored ==
  /\ \A s \in Ids :
       NotAlive(game, s) =>
         /\ \A t \in Names : castVote(game, s, t) = game
         /\ \A t \in Ids : ~voteIntentAccepted(game, s, t)
         /\ \A ok \in BOOLEAN : completeTask(game, s, ok) = game
         /\ \A t \in Names, success \in BOOLEAN :
              attemptKill(game, s, t, now, success).game = game
  /\ getVoteResults(game) = getVoteResults(WithoutGhostVotes(game))

\* a later voting phase in which a player voted out before still carries the
\* vote recorded for a player who is alive
GhostVoteAtLaterTally ==
  /\ isVotingPhase(game.state)
  /\ game.round >= 2
  /\ \E s \in Ids :
       /\ NotAlive(game, s)
       /\ getPlayer(game, s).voted
       /\ \E t \in Ids : Has(game, t) /\ getPlayer(game, t).isAlive
                          /\ getPlayer(game, s).voteTarget = t

\* the fields of player s that the player's own messages can write
OwnFields(g, s) ==
  LET p == getPlayer(g, s)
  IN <<p.voted, p.voteTarget, p.completedTasks, p.killAttempts, p.isAlive>>

(* C24, on the steps: once a player of the session is not alive, no step of
   a vote, a task answer or a kill attempt writes that player's vote, task
   count, attempt counter or alive flag. *)
EliminatedPlayerFrozen ==
  [][\A s \in 1..MAX_PLAYERS :
       (NotAlive(game, s) /\ Has(game', s) /\ game'.lobbyGroupId = game.lobbyGroupId
        /\ game'.round = game.round)
         => OwnFields(game', s) = OwnFields(game, s)
    ]_vars

\* the answer of player s is one that completeTask is to accept
AnswerQualifies(s, isCorrect) ==
  /\ Has(game, s)
  /\ getPlayer(game, s).isAlive
  /\ getPlayer(game, s).role # "IMPOSTOR"
  /\ game.state \in {PhaseState(r, "TASKS") : r \in Rounds}
  /\ s \in DOMAIN game.taskAssignments
  /\ ~game.taskAssignments[s]
  /\ isCorrect

(* C25: completeTask returns true exactly for a right answer of a living
   player who is not the impostor, in a task phase, to a task not yet
   completed; it then marks the task completed and adds 1 to the player's
   completedTasks and changes nothing else; every other call returns false
   and changes nothing (so a wrong answer leaves the task open), and the
   impostor's completedTasks is always 0. *)
CompleteTaskContract ==
  /\ \A s \in Ids, isCorrect \in BOOLEAN :
       LET h == completeTask(game, s, isCorrect)
       IN IF AnswerQualifies(s, isCorrect)
          THEN /\ completeTaskAccepted(game, s, isCorrect)
               /\ h.taskAssignments[s]
               /\ getPlayer(h, s).completedTasks = getPlayer(game, s).completedTasks + 1
               /\ [h EXCEPT !.taskAssignments = game.taskAssignments,
                            !.players = game.players] = game
               /\ \A x \in DOMAIN game.taskAssignments \ {s} :
                    h.taskAssignments[x] = game.taskAssignments[x]
               /\ DOMAIN h.taskAssignments = DOMAIN game.taskAssignments
               /\ [getPlayer(h, s) EXCEPT !.completedTasks = @ - 1] = getPlayer(game, s)
               /\ \A i \in 1..Len(game.players) :
                    game.players[i].inboxId # s => h.players[i] = game.players[i]
               /\ Len(h.players) = Len(game.players)
               /\ completeTask(h, s, FALSE) = h
               /\ completeTask(h, s, TRUE) = h
          ELSE /\ ~completeTaskAccepted(game, s, isCorrect)
               /\ h = game
  /\ \A i \in 1..Len(game.players) :
       game.players[i].role = "IMPOSTOR" => game.players[i].completedTasks = 0

\* a player has answered the task of a second round, after the first
TaskAnsweredAgain ==
  \E s \in Ids :
    /\ Has(game, s)
    /\ getPlayer(game, s).completedTasks = 2
    /\ game.taskAssignments[s]
    /\ isTaskPhase(game.state)

\* the step takes the session into the task phase of round r
EntersTasks(r) ==
  game'.state = PhaseState(r, "TASKS") /\ game.state # PhaseState(r, "TASKS")

(* C26: the task phase of round r + 1 is entered only by the tally of round
   r: the step that enters ROUND_(r+1)_TASKS is the end of processVoting(r),
   taken from the voting phase of round r after its votes were tallied. *)
NextRoundOnlyAfterTally ==
  [][\A r \in 1..(MAX_ROUNDS - 1) :
       EntersTasks(r + 1) =>
         /\ game.state = PhaseState(r, "VOTING")
         /\ \E w \in {"eliminated", "none"} : AfterTally(r, w)
    ]_vars

\* the fields createLobby writes, and the roster
LobbyFields(g) ==
  <<g.state, g.lobbyGroupId, g.originalGroupId, g.startTime, g.joinDeadline, g.players>>

(* C27: createLobby is refused whenever the state is not IDLE, before it
   writes anything; every call that starts does so from IDLE and writes
   nothing until the group exists, and from IDLE createLobby sets the state
   to LOBBY_CREATED, the two group ids, startTime to now and joinDeadline
   to now + JOIN_WINDOW_DURATION_MS and keeps the roster; a call that was
   let through sets these when its group exists. *)
CreateLobbyContract ==
  /\ [](/\ createLobbyAllowed(game) <=> game.state = "IDLE"
        /\ game.state = "IDLE" =>
             \A n \in 1..MaxGroups, s \in Ids :
               LET h == createLobby(game, n, s, now)
               IN /\ LobbyFields(h) = <<"LOBBY_CREATED", n, s, now,
                                         now + JOIN_WINDOW_DURATION_MS, game.players>>
                  /\ [h EXCEPT !.state = game.state,
                               !.lobbyGroupId = game.lobbyGroupId,
                               !.originalGroupId = game.originalGroupId,
                               !.startTime = game.startTime,
                               !.joinDeadline = game.joinDeadline] = game)
  /\ [][\A s \in Ids :
          /\ StartCmd(s) => game.state = "IDLE" /\ LobbyFields(game') = LobbyFields(game)
          /\ \A n \in 1..MaxGroups :
               CreateLobbyResume(s, n) =>
                 /\ game'.lobbyGroupId = n
                 /\ game'.originalGroupId = s
                 /\ game'.startTime = now
                 /\ game'.joinDeadline = now + JOIN_WINDOW_DURATION_MS
       ]_vars

\* a lobby made by createLobby is open: a further createLobby is refused
LobbyOpenRefusesCreate ==
  /\ game.state \in {"LOBBY_CREATED", "WAITING_FOR_PLAYERS"}
  /\ game.lobbyGroupId # Null
  /\ game.joinDeadline = game.startTime + JOIN_WINDOW_DURATION_MS
  /\ ~createLobbyAllowed(game)

\* addPlayer is to answer not-joined to inboxId now
JoinRefused(inboxId) ==
  \/ game.state \notin {"LOBBY_CREATED", "WAITING_FOR_PLAYERS"}
  \/ inboxId \in RosterIds(game)
  \/ (game.joinDeadline # Null /\ now > game.joinDeadline)

(* C28: addPlayer answers not-joined, before it writes anything, exactly
   when the state is neither LOBBY_CREATED nor WAITING_FOR_PLAYERS, the id
   is in the roster already, or the join deadline has passed; a join that is
   accepted appends the player alive, with no role, no completed task, no
   kill attempt and no vote, keeps the others and sets the state to
   WAITING_FOR_PLAYERS. *)
AddPlayerContract ==
  /\ [](\A j \in Ids : JoinRefused(j) <=> ~addPlayerAccepted(game, j, now))
  /\ [][\A j \in Ids :
          (JoinCmd(j) \/ JoinIntent(j)) =>
            /\ ~JoinRefused(j)
            /\ game'.state = "WAITING_FOR_PLAYERS"
            /\ game'.players =
                 Append(game.players,
                        [inboxId |-> j, username |-> j, role |-> "null",
                         isAlive |-> TRUE, completedTasks |-> 0, killAttempts |-> 0,
                         lastKillAttempt |-> Null, voted |-> FALSE, voteTarget |-> Null])
            /\ [game' EXCEPT !.players = game.players, !.state = game.state] = game
       ]_vars

\* a second player was admitted and the window has closed since: a further
\* join is refused for the deadline alone
JoinedThenWindowClosed ==
  /\ game.state = "WAITING_FOR_PLAYERS"
  /\ Len(game.players) = 2
  /\ now > game.joinDeadline
  /\ \A j \in 1..MAX_PLAYERS : ~addPlayerAccepted(game, j, now)

\* the quorum: enough players, and the join window closed or the roster full
Quorum ==
  /\ Len(game.players) >= MIN_PLAYERS_TO_START
  /\ \/ (game.joinDeadline # Null /\ now > game.joinDeadline)
     \/ Len(game.players) >= MAX_PLAYERS

RolesOf(g) == [i \in 1..Len(g.players) |-> g.players[i].role]

(* C29: the session goes from WAITING_FOR_PLAYERS to ASSIGN_ROLES only with
   a quorum (at least MIN_PLAYERS_TO_START players, and the join deadline
   passed or the roster full), and ASSIGN_ROLES is entered from nowhere
   else; assignRoles without canStartGame throws before it writes: no role
   is assigned and the session is as before. *)
StartsOnlyWithQuorum ==
  /\ [](/\ assignRolesAllowed(game, now) <=> (game.state = "WAITING_FOR_PLAYERS" /\ Quorum)
        /\ canStartGame(game, now) <=> (game.state = "WAITING_FOR_PLAYERS" /\ Quorum)
        /\ ~canStartGame(game, now) =>
             \A idx \in 1..Len(game.players) :
               /\ startGameBegin(game, now, idx).game = game
               /\ startGameBegin(game, now, idx).flows = {})
  /\ [][(game'.state = "ASSIGN_ROLES" /\ game.state # "ASSIGN_ROLES") =>
          /\ game.state = "WAITING_FOR_PLAYERS"
          /\ Quorum
          /\ RosterIds(game') = RosterIds(game)
          /\ \A i \in 1..Len(game'.players) : RolesOf(game')[i] \in {"IMPOSTOR", "CREW"}
       ]_vars

\* the game was started by the full roster, before the join deadline
StartedByFullRoster ==
  /\ game.state = "ASSIGN_ROLES"
  /\ Len(game.players) >= MAX_PLAYERS
  /\ now <= game.joinDeadline
  /\ game.impostorInboxId # Null

(* C30: the cancel-game button resets the session only while the state is
   LOBBY_CREATED or WAITING_FOR_PLAYERS: the step that clears the timers and
   resets the session for a cancellation is taken in one of these two
   states, and leaves no timer and the session as constructed. *)
CancelOnlyInLobby ==
  [][CancelResume =>
       /\ game.state \in {"LOBBY_CREATED", "WAITING_FOR_PLAYERS"}
       /\ timers' = {}
       /\ game' = NewGame
    ]_vars

\* the invocations and timers that carry the round they were made for
RoundsInFlight ==
  { f.r : f \in { x \in BagToSet(flows) :
                    x.pc \in {"startTaskPhase", "startKillPhase", "startDiscussionPhase",
                              "startVotingPhase", "processVoting", "afterTally"} } }
  \cup { k.r : k \in { x \in timers : x.kind # "joinWindow" } }

(* C31: the round counter is always in 0..MAX_ROUNDS: startRound with an
   argument outside 1..MAX_ROUNDS throws and leaves the session as it is,
   and every phase function, timer and tally in flight was made for a round
   in 1..MAX_ROUNDS, so that processVoting, which starts round r + 1 only
   when r < MAX_ROUNDS, never asks for a round above MAX_ROUNDS. *)
RoundInRange ==
  /\ game.round \in 0..MAX_ROUNDS
  /\ \A r \in {-1, 0, MAX_ROUNDS + 1, MAX_ROUNDS + 2} : startRound(game, r) = game
  /\ RoundsInFlight \subseteq 1..MAX_ROUNDS
  /\ \A r \in RoundsInFlight : advanceOrEnd(game, timers, r).game.round \in 0..MAX_ROUNDS

\* the votes of the last round are being tallied
LastRoundTallied ==
  /\ game.round = MAX_ROUNDS
  /\ \E f \in BagToSet(flows) : f.pc = "processVoting" /\ f.r = MAX_ROUNDS

(* C32: when every timer fires and every call of a collaborator returns, a
   session that has left IDLE returns to IDLE: it does not stay for ever in
   a lobby, in the assignment of roles or in a phase of a round. *)
SessionReturnsToIdle == (game.state # "IDLE") ~> (game.state = "IDLE")

\* something is left that will move the session on
CanAdvance == timers # {} \/ delayed > 0 \/ flows # EmptyBag

(* C33: a lookup that answers nothing and a send that throws, in the entry
   of a phase or in endGame, do not stop the session: a session that is not
   IDLE always has a timer, a delayed callback or a call in flight that
   moves it on. *)
FailureDoesNotStopSession == game.state # "IDLE" => CanAdvance

\* what createLobby sets for a session
SessionIdentity(g) == <<g.lobbyGroupId, g.originalGroupId, g.startTime, g.joinDeadline>>

(* C34: of two /start requests that overlap at most one makes the session:
   createLobby writes only into a session that is IDLE, so the group ids,
   startTime and joinDeadline of a session that has left IDLE stay as they
   were set until the session is reset, and the state is not set back to
   LOBBY_CREATED. *)
LobbyMadeOnce ==
  [][/\ \A s \in Senders, n \in 1..MaxSessions :
          CreateLobbyResume(s, n) => game.state = "IDLE"
     /\ (game.state # "IDLE" /\ game'.state # "IDLE")
          => /\ SessionIdentity(game') = SessionIdentity(game)
             /\ game'.state = "LOBBY_CREATED" => game.state = "LOBBY_CREATED"
    ]_vars

\* the step takes back the vote that living player id has recorded
VoteDiscarded(id) ==
  /\ Has(game, id) /\ Has(game', id)
  /\ getPlayer(game, id).isAlive
  /\ getPlayer(game, id).voted
  /\ ~getPlayer(game', id).voted

(* C35: a vote accepted in the voting phase of round r is there when the
   votes of round r are tallied: no step that leaves the session in that
   voting phase takes a recorded vote back. *)
VotesKeptUntilTally ==
  [][(isVotingPhase(game.state) /\ game'.state = game.state)
       => \A id \in Ids : ~VoteDiscarded(id)
    ]_vars

(* C36: within a session the round counter never goes down: no timer
   callback, delayed callback or handler sets the round below the round
   that has started, until the session is reset to IDLE. *)
RoundNeverDecreases ==
  [][game'.round < game.round => game'.state = "IDLE" /\ game'.round = 0]_vars

DeadIds(g) == RosterIds(g) \ AliveIds(g)

\* an attemptKill of the step succeeds: a player is killed
KillSucceeds ==
  /\ \E s \in 1..ReplayPlayers, t \in 1..ReplayPlayers : KillCmd(s, t, TRUE)
  /\ AliveIds(game') # AliveIds(game)

(* C37: at most one player is killed in a round.  Before round r's kill at
   most two players were eliminated in each earlier round (one killed, one
   voted out), so a kill that succeeds in ROUND_r_KILL finds at most
   2 * (r - 1) players eliminated: in round 1 nobody. *)
OneKillPerRound ==
  [][\A r \in Rounds :
       (game.state = PhaseState(r, "KILL") /\ game.round = r /\ KillSucceeds)
         => Cardinality(DeadIds(game)) <= 2 * (r - 1)
    ]_vars

\* the step is an assignRoles that goes through
RolesAssigned == game'.state = "ASSIGN_ROLES" /\ game.state # "ASSIGN_ROLES"

(* C38: roles are assigned once in a session: assignRoles goes through only
   in a session that has no impostor yet, and a startGame that comes after
   (from a second full-lobby join or from the join-window timer) changes
   neither the roles nor impostorInboxId, state or round. *)
RolesAssignedOnce ==
  [][/\ RolesAssigned => game.impostorInboxId = Null
     /\ (game.impostorInboxId # Null /\ game'.state # "IDLE")
          => game'.impostorInboxId = game.impostorInboxId
    ]_vars

(* C39: the round counter agrees with the state: in ROUND_r_TASKS,
   ROUND_r_KILL, ROUND_r_DISCUSSION and ROUND_r_VOTING the round is r, and
   in IDLE, LOBBY_CREATED, WAITING_FOR_PLAYERS and ASSIGN_ROLES it is 0. *)
RoundAgreesWithState ==
  /\ \A r \in Rounds, ph \in {"TASKS", "KILL", "DISCUSSION", "VOTING"} :
       game.state = PhaseState(r, ph) => game.round = r
  /\ game.state \in {"IDLE", "LOBBY_CREATED", "WAITING_FOR_PLAYERS", "ASSIGN_ROLES"}
       => game.round = 0

(* C40: the eliminated set is exactly the set of roster players whose
   isAlive is false: a killed or voted-out player is in both, and a player
   evicted from the lobby is in neither the roster nor the eliminated set. *)
EliminatedAreTheDead == game.eliminatedPlayers = DeadIds(game)

=============================================================================
